---- MODULE Spec2Model ----
(***************************************************************************)
(* git-draft: the draft lifecycle engine (Drafter) over a model of the git *)
(* repository it drives (branches, HEAD, index, working tree, refs) and of *)
(* the history store (folio, prompt, action and operation rows).           *)
(*                                                                         *)
(* A file's contents are a sequence of lines; a tree (a commit's tree, the *)
(* index, the working tree) is a function from the paths it holds to their *)
(* contents.  A commit id is the commit's position in repo.commits.        *)
(*                                                                         *)
(* Further specifications over the same state cover the toolbox, the git   *)
(* gateway, the repository identity, the draft branch names, the commit-   *)
(* bound worktree surface (surface) and the Manager with its commit notes  *)
(* (repo.notes); log holds the calls made, in the shape of each.           *)
(***************************************************************************)
EXTENDS Integers, Sequences, FiniteSets, TLC

VARIABLES repo, store, log, edits, surface

vars == <<repo, store, log, edits, surface>>

\* ------------------------------------------------------------------ bounds

\* Drafter calls (generate_draft, finalize_folio) per behaviour.
MaxCalls == 2

\* Steps per behaviour: Drafter calls and user steps (edits of the working
\* tree, git add, git checkout --detach, commits landing on the origin branch).
\* The first generate_draft may still follow MaxSteps user steps.
MaxSteps == 3

Paths == {"p1", "p2"}

\* What the user writes to a working-tree file, and what a bot writes.
UserContents == {<<"b">>}

BotContents == {<<"c">>, <<"c", "\n">>}

\* The tree of the initial commit of the origin branch.
InitTree == [p \in {"p1"} |-> <<"a">>]

\* Prompts are sequences of characters.
Prompts == {<<>>, <<" ", "\n">>, <<"h", "i">>, <<"y", "o", "\n">>}

\* ------------------------------------------------------------------- trees

Put(t, p, c) == [q \in (DOMAIN t) \cup {p} |-> IF q = p THEN c ELSE t[q]]

Del(t, p) == [q \in (DOMAIN t) \ {p} |-> t[q]]

\* The file at p as an option: <<contents>>, or <<>> when t has no file at p.
Opt(t, p) == IF p \in DOMAIN t THEN <<t[p]>> ELSE <<>>

\* The paths whose file differs between two trees.
ChangedPaths(t1, t2) == {p \in Paths : Opt(t1, p) # Opt(t2, p)}

\* ----------------------------------------------------------------- strings

\* Texts (prompts, file contents, command output) are sequences of characters;
\* a text may also hold whole words, which stand for runs of other characters.
Whitespace == {" ", "\n", "\t"}

\* str.strip that removes nothing.
strip_nothing(s) == s

RECURSIVE lstrip(_)
lstrip(s) == IF s # <<>> /\ Head(s) \in Whitespace THEN lstrip(Tail(s)) ELSE s

RECURSIVE rstrip(_)
rstrip(s) ==
    IF s # <<>> /\ s[Len(s)] \in Whitespace
    THEN rstrip(SubSeq(s, 1, Len(s) - 1)) ELSE s

strip(s) == rstrip(lstrip(s))

\* The text ended by a newline if it is not.
Lines(text) ==
    IF text # <<>> /\ text[Len(text)] = "\n" THEN text ELSE text \o <<"\n">>

\* GitCall.sync: the output of a git command as the program gets it.
GitCall_stdout(text) == rstrip(text)

\* ------------------------------------------------------------ git.py: Repo

Main == <<"main">>

NoBranch == <<>>

head_commit(r) ==
    IF r.head.branch = NoBranch THEN r.head.sha ELSE r.branches[r.head.branch]

HeadTree(r) == r.commits[head_commit(r)].tree

active_branch(r) == r.head.branch

\* has_staged_changes that looks at unmerged entries only.
has_staged_changes_unmerged(r) == r.unmerged # {}

has_staged_changes(r) == r.index # HeadTree(r) \/ r.unmerged # {}

\* git commit --allow-empty -m message: the index becomes a commit on HEAD.
create_commit(r, message) ==
    LET sha == Len(r.commits) + 1
        c == [parent |-> head_commit(r), tree |-> r.index, message |-> message]
    IN  IF r.head.branch = NoBranch
        THEN [r EXCEPT !.commits = Append(@, c), !.head.sha = sha]
        ELSE [r EXCEPT !.commits = Append(@, c),
                       !.branches[r.head.branch] = sha]

\* git checkout -b name
checkout_new_branch(r, name) ==
    [r EXCEPT !.branches = (name :> head_commit(r)) @@ @,
              !.head = [branch |-> name, sha |-> 0]]

\* git add --all: the index takes the working tree's files.
GitAddAll(r) == [r EXCEPT !.index = r.worktree, !.unmerged = {}]

\* git reset: the index takes HEAD's tree, the working tree is kept.
GitReset(r) == [r EXCEPT !.index = HeadTree(r), !.unmerged = {}]

\* HEAD stays on its branch.
GitCheckoutAttached(r) == r

\* git checkout --detach
GitCheckoutDetach(r) ==
    [r EXCEPT !.head = [branch |-> NoBranch, sha |-> head_commit(r)]]

\* git reset --hard <branch>: the working tree takes the branch's tree too.
GitResetHardTo(r, branch) ==
    LET sha == r.branches[branch]
    IN  IF r.head.branch = NoBranch
        THEN [r EXCEPT !.head.sha = sha, !.index = r.commits[sha].tree,
                       !.worktree = r.commits[sha].tree, !.unmerged = {}]
        ELSE [r EXCEPT !.branches[r.head.branch] = sha,
                       !.index = r.commits[sha].tree,
                       !.worktree = r.commits[sha].tree, !.unmerged = {}]

\* git reset -N <branch>: HEAD and the index move to the branch's commit, the
\* working tree is kept (paths dropped from the index become intent-to-add
\* entries, which git diff --staged does not report).
GitResetTo(r, branch) ==
    LET sha == r.branches[branch]
    IN  IF r.head.branch = NoBranch
        THEN [r EXCEPT !.head.sha = sha, !.index = r.commits[sha].tree,
                       !.unmerged = {}]
        ELSE [r EXCEPT !.branches[r.head.branch] = sha,
                       !.index = r.commits[sha].tree, !.unmerged = {}]

\* git checkout <branch>, called with HEAD already at the branch's commit:
\* only HEAD changes.
GitCheckout(r, branch) == [r EXCEPT !.head = [branch |-> branch, sha |-> 0]]

\* git branch -D name
GitBranchDelete(r, name) ==
    [r EXCEPT !.branches = [b \in (DOMAIN @) \ {name} |-> @[b]]]

\* git update-ref that leaves no other ref.
GitUpdateRefOnly(r, ref, sha) == [r EXCEPT !.refs = (ref :> sha)]

\* git update-ref ref sha
GitUpdateRef(r, ref, sha) == [r EXCEPT !.refs = (ref :> sha) @@ @]

\* --------------------------------------------------------- history store

\* Repo.uuid: the identifier the Drafter's Repo was made with, a sequence
\* of hexadecimal digits' values.
RepoUuid == <<1, 10>>

HexChars == <<"0", "1", "2", "3", "4", "5", "6", "7", "8", "9",
              "a", "b", "c", "d", "e", "f">>

\* str(uuid)
str_uuid(u) == [k \in DOMAIN u |-> HexChars[u[k] + 1]]

\* add-folio: a new folio row; its id is its position.
add_folio(s, repo_uuid, origin_branch, origin_sha) ==
    [s EXCEPT !.folios = Append(@, [repo_uuid |-> repo_uuid,
                                    origin_branch |-> origin_branch,
                                    origin_sha |-> origin_sha])]

\* The next sequence number of a folio: one more than its prompt rows.
NextSeqno(s, folio_id) ==
    1 + Cardinality({i \in DOMAIN s.prompts : s.prompts[i].folio_id = folio_id})

\* add-prompt: a new prompt row; its id is its position.
add_prompt(s, folio_id, contents) ==
    [s EXCEPT !.prompts = Append(@, [folio_id |-> folio_id,
                                     seqno |-> NextSeqno(s, folio_id),
                                     contents |-> contents])]

\* add-action
add_action(s, commit_sha, prompt_id) ==
    [s EXCEPT !.actions = Append(@, [commit_sha |-> commit_sha,
                                     prompt_id |-> prompt_id])]

\* add-operation, for each recorded operation in order
add_operations(s, commit_sha, ops) ==
    [s EXCEPT !.operations =
        @ \o [i \in DOMAIN ops |-> [commit_sha |-> commit_sha,
                                    tool |-> ops[i].tool,
                                    path |-> ops[i].path]]]

\* get-folio-by-id: the rows with that id
get_folio_by_id(s, id) ==
    IF id \in DOMAIN s.folios THEN <<s.folios[id]>> ELSE <<>>

\* get-latest-folio-prompt: the contents of the folio's prompt row with the
\* highest sequence number, as an option
get_latest_folio_prompt(s, folio_id) ==
    IF \A k \in DOMAIN s.prompts : s.prompts[k].folio_id # folio_id THEN <<>>
    ELSE <<s.prompts[CHOOSE k \in DOMAIN s.prompts :
               /\ s.prompts[k].folio_id = folio_id
               /\ \A j \in DOMAIN s.prompts :
                      s.prompts[j].folio_id = folio_id
                          => s.prompts[j].seqno <= s.prompts[k].seqno].contents>>

\* ------------------------------------------------------ drafter.py: names

MANUAL == 0

CHECKOUT == 1

FINALIZE == 2

Accept == {MANUAL, CHECKOUT, FINALIZE}

PREFIX == "drafts/"

\* _Branch.name: the prefix followed by the folio id
Branch_name(folio_id) == <<PREFIX, folio_id>>

\* _Branch.active without a name: the folio id of the active branch as an
\* option, <<>> when HEAD is detached or the branch is no draft branch.
Branch_active(r) ==
    LET b == active_branch(r)
    IN  IF Len(b) = 2 /\ b[1] = PREFIX THEN <<b[2]>> ELSE <<>>

\* A ref name that leaves out the sequence number.
draft_ref_folio_only(folio_id, seqno) == <<"refs/drafts/", folio_id, 0>>

draft_ref(folio_id, seqno) == <<"refs/drafts/", folio_id, seqno>>

\* ---------------------------------------------------------------- toolbox

\* write_file that also writes the file in the working tree.
Toolbox_write_file_worktree(r, path, data) ==
    [r EXCEPT !.index = Put(@, path, data), !.worktree = Put(@, path, data)]

\* write_file: the index entry of the path takes the contents; the working
\* tree is not touched.
Toolbox_write_file(r, path, data) == [r EXCEPT !.index = Put(@, path, data)]

\* delete_file: the index entry of the path goes; nothing to do when the
\* path has none.
Toolbox_delete_file(r, path) ==
    IF path \in DOMAIN r.index THEN [r EXCEPT !.index = Del(@, path)] ELSE r

\* read_file: the staged contents of the path as git show :<path> prints
\* them and the git call returns them, as an option: <<>> (FileNotFoundError)
\* when the path is not staged.
Toolbox_read_file(r, path) ==
    IF path \in DOMAIN r.index THEN <<GitCall_stdout(r.index[path])>> ELSE <<>>

\* _OperationRecorder: one record per toolbox call.
on_write_file(path) == [tool |-> "write_file", path |-> path]

\* A delete_file call recorded as a write.
on_delete_file_as_write(path) == [tool |-> "write_file", path |-> path]

on_delete_file(path) == [tool |-> "delete_file", path |-> path]

\* One toolbox call of the bot on the toolbox state tb.
ToolboxCall(tb, op) ==
    IF op.tool = "write_file"
    THEN [repo |-> Toolbox_write_file(tb.repo, op.path, op.contents),
          updated |-> tb.updated \cup {op.path},
          operations |-> Append(tb.operations, on_write_file(op.path))]
    ELSE [repo |-> Toolbox_delete_file(tb.repo, op.path),
          updated |-> tb.updated \cup {op.path},
          operations |-> Append(tb.operations, on_delete_file(op.path))]

RECURSIVE ToolboxCalls(_, _)
ToolboxCalls(tb, ops) ==
    IF ops = <<>> THEN tb ELSE ToolboxCalls(ToolboxCall(tb, Head(ops)), Tail(ops))

\* trim_index: staged changes to paths the bot did not update leave the index.
trim_index(r, index, updated) ==
    [p \in {q \in Paths : IF q \in updated THEN q \in DOMAIN index
                                           ELSE q \in DOMAIN HeadTree(r)} |->
        IF p \in updated THEN index[p] ELSE HeadTree(r)[p]]

\* Bot.act: the bot's toolbox calls in order, and the files it (or anything
\* else running meanwhile) writes to the working tree outside the toolbox.
RECURSIVE DirectWrites(_, _)
DirectWrites(worktree, direct) ==
    IF direct = <<>> THEN worktree
    ELSE DirectWrites(Put(worktree, Head(direct).path, Head(direct).contents),
                      Tail(direct))

\* a _SimpleBot: for each path in order, nothing, a write or a delete
PathOrder == <<"p1", "p2">>

BotChoices ==
    {<<>>} \cup {<<[tool |-> "delete_file", contents |-> <<>>]>>}
           \cup {<<[tool |-> "write_file", contents |-> c]>> : c \in BotContents}

RECURSIVE SimpleBotOps(_, _)
SimpleBotOps(m, order) ==
    IF order = <<>> THEN <<>>
    ELSE [i \in DOMAIN m[Head(order)] |->
             [tool |-> m[Head(order)][i].tool, path |-> Head(order),
              contents |-> m[Head(order)][i].contents]]
         \o SimpleBotOps(m, Tail(order))

\* Writes to the working tree made outside the toolbox while the bot runs,
\* to a path the bot also touches through the toolbox.
Directs == {<<>>} \cup {<<[path |-> "p1", contents |-> c]>> : c \in UserContents}

\* A bot whose act raises before any toolbox call (a failed request, say).
RaisingBot == [ops |-> <<>>, direct |-> <<>>, raises |-> TRUE]

Bots == {b \in {[ops |-> SimpleBotOps(m, PathOrder), direct |-> d,
                 raises |-> FALSE] :
                    m \in [Paths -> BotChoices], d \in Directs} :
            \A k \in DOMAIN b.direct :
                \E j \in DOMAIN b.ops : b.ops[j].path = b.direct[k].path}
        \cup {RaisingBot}

\* --------------------------------------------------------------- messages

SyncMessage == [title |-> "draft! sync", prompt |-> <<>>]

DraftMessage(prompt) == [title |-> "draft!", prompt |-> prompt]

UserMessage == [title |-> "user", prompt |-> <<>>]

PendingChangesError == "ValueError: Please commit or reset any staged changes"

NoActiveBranchError == "RuntimeError: No currently active branch"

EmptyPromptError == "ValueError: Empty prompt"

NotOnDraftBranchError == "RuntimeError: Not currently on a draft branch"

UnrecognizedBranchError == "RuntimeError: Unrecognized draft branch"

ConflictError == "ConflictError"

BotActError == "Error raised by Bot.act"

ApplyFailedError == "NotImplementedError"

Ok == "ok"

\* ---------------------------------------------------- drafter.py: Drafter

\* _stage_changes that stages and never commits.
stage_changes_no_commit(r) == GitAddAll(r)

\* _stage_changes
stage_changes(r) ==
    LET r1 == GitAddAll(r)
    IN  IF ~has_staged_changes(r1) THEN r1 ELSE create_commit(r1, SyncMessage)

\* _create_branch that records the folio before it looks for the branch.
create_branch_folio_first(r, s) ==
    IF active_branch(r) = NoBranch
    THEN [repo |-> r, store |-> add_folio(s, str_uuid(RepoUuid), NoBranch,
                                           head_commit(r)),
          err |-> NoActiveBranchError, folio_id |-> 0]
    ELSE LET s1 == add_folio(s, str_uuid(RepoUuid), active_branch(r),
                             head_commit(r))
             folio_id == Len(s1.folios)
             r1 == GitCheckoutDetach(r)
             r2 == stage_changes(r1)
             r3 == checkout_new_branch(r2, Branch_name(folio_id))
         IN  [repo |-> r3, store |-> s1, err |-> Ok, folio_id |-> folio_id]

\* _create_branch that reads the origin commit once the working tree is
\* synced.
create_branch_origin_after_sync(r, s) ==
    IF active_branch(r) = NoBranch
    THEN [repo |-> r, store |-> s, err |-> NoActiveBranchError, folio_id |-> 0]
    ELSE LET r1 == GitCheckoutDetach(r)
             r2 == stage_changes(r1)
             s1 == add_folio(s, str_uuid(RepoUuid), active_branch(r),
                             head_commit(r2))
             folio_id == Len(s1.folios)
             r3 == checkout_new_branch(r2, Branch_name(folio_id))
         IN  [repo |-> r3, store |-> s1, err |-> Ok, folio_id |-> folio_id]

\* _create_branch
create_branch(r, s) ==
    IF active_branch(r) = NoBranch
    THEN [repo |-> r, store |-> s, err |-> NoActiveBranchError, folio_id |-> 0]
    ELSE LET s1 == add_folio(s, str_uuid(RepoUuid), active_branch(r),
                             head_commit(r))
             folio_id == Len(s1.folios)
             r1 == GitCheckoutDetach(r)
             r2 == stage_changes(r1)
             r3 == checkout_new_branch(r2, Branch_name(folio_id))
         IN  [repo |-> r3, store |-> s1, err |-> Ok, folio_id |-> folio_id]

\* _generate_change: the bot acts on a toolbox over the index, the index is
\* trimmed and committed; what the bot raises ends the call.
generate_change(r, prompt_contents, bot) ==
    IF bot.raises
    THEN [repo |-> r, commit |-> 0, operations |-> <<>>, err |-> BotActError]
    ELSE
    LET tb == ToolboxCalls([repo |-> r, updated |-> {}, operations |-> <<>>],
                           bot.ops)
        r1 == [tb.repo EXCEPT !.worktree = DirectWrites(@, bot.direct)]
        r2 == [r1 EXCEPT !.index = trim_index(r1, r1.index, tb.updated)]
        r3 == create_commit(r2, DraftMessage(prompt_contents))
    IN  [repo |-> r3, commit |-> head_commit(r3), operations |-> tb.operations,
         err |-> Ok]

\* _Change.add_ref
Change_add_ref(r, commit, folio_id, seqno) ==
    GitUpdateRef(r, draft_ref(folio_id, seqno), commit)

NoNewline == "\\ No newline at end of file"

\* The lines of a patch's hunk that remove (sign "-") or add (sign "+") the
\* one line of a file, given as an option.
HunkLines(sign, file) ==
    IF file = <<>> \/ file[1] = <<>> THEN <<>>
    ELSE <<sign>> \o Lines(file[1])
             \o (IF file[1][Len(file[1])] = "\n" THEN <<>>
                 ELSE <<NoNewline, "\n">>)

\* The path that comes last in a patch of the paths ps.
LastPath(ps) ==
    PathOrder[CHOOSE k \in DOMAIN PathOrder :
                 /\ PathOrder[k] \in ps
                 /\ \A j \in DOMAIN PathOrder : PathOrder[j] \in ps => j <= k]

\* The end of the output of git diff-tree --patch: the hunk of the last
\* changed path, nothing when no path changed.
DiffTreeEnd(base, theirs) ==
    IF ChangedPaths(base, theirs) = {} THEN <<>>
    ELSE HunkLines("-", Opt(base, LastPath(ChangedPaths(base, theirs))))
             \o HunkLines("+", Opt(theirs, LastPath(ChangedPaths(base, theirs))))

\* git apply can parse the patch: its last hunk is whole, every line of the
\* file ended by a newline or followed by the no-newline marker, which alone
\* may lack its own newline.
PatchParses(diff) == diff = <<>> \/ diff[Len(diff)] \in {"\n", NoNewline}

\* _Change.delta: git diff-tree --patch commit, the patch from the commit's
\* parent to the commit; no paths when the patch is empty.
Change_delta(r, commit) ==
    LET base == r.commits[r.commits[commit].parent].tree
        theirs == r.commits[commit].tree
    IN  [paths |-> ChangedPaths(base, theirs), base |-> base, theirs |-> theirs,
         diff |-> GitCall_stdout(DiffTreeEnd(base, theirs))]

\* The file git apply --3way leaves for a conflict.
Markers(ours, theirs) ==
    <<"<<<<<<< ours", "\n">> \o Lines(ours) \o <<"=======", "\n">>
        \o Lines(theirs) \o <<">>>>>>> theirs", "\n">>

\* git apply --3way on one path of the patch, files as options: base is the
\* patch's preimage, theirs its postimage, ours the index entry.
ApplyPath(base, ours, theirs) ==
    IF theirs = <<>>
    THEN IF ours = base THEN [res |-> "clean", file |-> <<>>]
                        ELSE [res |-> "fail", file |-> ours]
    ELSE IF ours = <<>>
    THEN IF base = <<>> THEN [res |-> "clean", file |-> theirs]
                        ELSE [res |-> "fail", file |-> ours]
    ELSE IF ours = theirs \/ ours = base
    THEN [res |-> "clean", file |-> theirs]
    ELSE [res |-> "conflict", file |-> <<Markers(ours[1], theirs[1])>>]

\* The tree t with the files of the paths in ps taken from the options f[p].
Overlay(t, ps, f) ==
    [p \in {q \in Paths : IF q \in ps THEN f[q] # <<>> ELSE q \in DOMAIN t} |->
        IF p \in ps THEN f[p][1] ELSE t[p]]

\* git apply --3way --cached: the patch goes to the index only.
GitApplyCached(r, delta) ==
    LET res == [p \in delta.paths |->
                   ApplyPath(Opt(delta.base, p), Opt(r.index, p),
                             Opt(delta.theirs, p))]
        failed == IF ~PatchParses(delta.diff) THEN delta.paths
                  ELSE {p \in delta.paths : res[p].res = "fail"}
        conflicts == IF ~PatchParses(delta.diff) THEN {}
                     ELSE {p \in delta.paths : res[p].res = "conflict"}
        files == [p \in delta.paths |-> res[p].file]
    IN  [failed |-> failed, conflicts |-> conflicts,
         repo |-> IF failed # {} THEN r
                  ELSE [r EXCEPT
                          !.index = Overlay(@, delta.paths \ conflicts, files),
                          !.unmerged = conflicts]]

\* git apply --3way of the patch on the index and the working tree: each
\* path's outcome, and the repository it leaves.  A patch that does not
\* parse or a path that fails to apply leaves everything as it was; a conflicted path gets markers in the working
\* tree and stays unmerged in the index.
GitApply3Way(r, delta) ==
    LET res == [p \in delta.paths |->
                   ApplyPath(Opt(delta.base, p), Opt(r.index, p),
                             Opt(delta.theirs, p))]
        failed == IF ~PatchParses(delta.diff) THEN delta.paths
                  ELSE {p \in delta.paths : res[p].res = "fail"}
        conflicts == IF ~PatchParses(delta.diff) THEN {}
                     ELSE {p \in delta.paths : res[p].res = "conflict"}
        files == [p \in delta.paths |-> res[p].file]
    IN  [failed |-> failed, conflicts |-> conflicts,
         repo |-> IF failed # {} THEN r
                  ELSE [r EXCEPT
                          !.worktree = Overlay(@, delta.paths, files),
                          !.index = Overlay(@, delta.paths \ conflicts, files),
                          !.unmerged = conflicts]]

\* _Delta.apply that leaves the applied result staged.
Delta_apply_staged(r, delta) ==
    LET r1 == GitAddAll(r)
        call == GitApply3Way(r1, delta)
    IN  IF call.conflicts # {} THEN [repo |-> call.repo, err |-> ConflictError]
        ELSE IF call.failed # {} THEN [repo |-> call.repo, err |-> ApplyFailedError]
        ELSE [repo |-> call.repo, err |-> Ok]

\* _Delta.apply that undoes the apply before raising ConflictError.
Delta_apply_rollback(r, delta) ==
    LET r1 == GitAddAll(r)
        call == GitApply3Way(r1, delta)
    IN  IF call.conflicts # {} THEN [repo |-> r1, err |-> ConflictError]
        ELSE IF call.failed # {} THEN [repo |-> call.repo, err |-> ApplyFailedError]
        ELSE [repo |-> GitReset(call.repo), err |-> Ok]

\* _Delta.apply
Delta_apply(r, delta) ==
    LET r1 == GitAddAll(r)
        call == GitApply3Way(r1, delta)
    IN  IF call.conflicts # {} THEN [repo |-> call.repo, err |-> ConflictError]
        ELSE IF call.failed # {} THEN [repo |-> call.repo, err |-> ApplyFailedError]
        ELSE [repo |-> GitReset(call.repo), err |-> Ok]

\* finalize_folio that looks the folio up before it stages anything.
ExitFolio_lookup_first(r, s, folio_id) ==
    IF get_folio_by_id(s, folio_id) = <<>>
    THEN [repo |-> r, err |-> UnrecognizedBranchError]
    ELSE
    LET r1 == stage_changes(r)
        origin_branch == get_folio_by_id(s, folio_id)[1].origin_branch
        r2 == GitCheckoutDetach(r1)
        r3 == GitResetTo(r2, origin_branch)
        r4 == GitCheckout(r3, origin_branch)
        r5 == GitBranchDelete(r4, Branch_name(folio_id))
    IN  [repo |-> r5, err |-> Ok]

\* finalize_folio from the staging on, on the draft branch of a folio.
ExitFolio(r, s, folio_id) ==
    LET r1 == stage_changes(r)
        rows == get_folio_by_id(s, folio_id)
    IN  IF rows = <<>> THEN [repo |-> r1, err |-> UnrecognizedBranchError]
        ELSE
        LET origin_branch == rows[1].origin_branch
            r2 == GitCheckoutDetach(r1)
            r3 == GitResetTo(r2, origin_branch)
            r4 == GitCheckout(r3, origin_branch)
            r5 == GitBranchDelete(r4, Branch_name(folio_id))
        IN  [repo |-> r5, err |-> Ok]

\* finalize_folio that stages before it looks at the active branch.
finalize_folio_stage_first(r, s) ==
    LET branch == Branch_active(r)
    IN  IF branch = <<>>
        THEN [repo |-> stage_changes(r), err |-> NotOnDraftBranchError]
        ELSE ExitFolio(r, s, branch[1])

\* finalize_folio
finalize_folio(r, s) ==
    LET branch == Branch_active(r)
    IN  IF branch = <<>> THEN [repo |-> r, err |-> NotOnDraftBranchError]
        ELSE ExitFolio(r, s, branch[1])

\* The outcome of a Drafter call: the state it leaves, the error it raised
\* (Ok when it returned) and the Draft it returned.
Result(r, s, err, folio_id, seqno, commit) ==
    [repo |-> r, store |-> s, err |-> err, folio_id |-> folio_id,
     seqno |-> seqno, commit |-> commit]

NoApply(r) == [repo |-> r, err |-> Ok]

\* generate_draft whose end finalizes the folio whatever the apply raised.
generate_draft_finalize_always(ap, s, folio_id, seqno, commit, accept) ==
    LET fin == IF accept >= FINALIZE THEN finalize_folio(ap.repo, s)
                                     ELSE NoApply(ap.repo)
    IN  Result(fin.repo, s, IF ap.err # Ok THEN ap.err ELSE fin.err,
               folio_id, seqno, commit)

\* generate_draft, the end: the folio is finalized if the caller accepts that
\* far, and the Draft is returned.
generate_draft_finalize(ap, s, folio_id, seqno, commit, accept) ==
    IF ap.err # Ok THEN Result(ap.repo, s, ap.err, folio_id, seqno, commit)
    ELSE
    LET fin == IF accept >= FINALIZE THEN finalize_folio(ap.repo, s)
                                     ELSE NoApply(ap.repo)
    IN  Result(fin.repo, s, fin.err, folio_id, seqno, commit)

\* generate_draft that stops at an absent delta: neither apply nor finalize.
generate_draft_accept_delta_only(r, s, folio_id, seqno, commit, accept) ==
    IF Change_delta(r, commit).paths = {}
    THEN Result(r, s, Ok, folio_id, seqno, commit)
    ELSE generate_draft_finalize(
             IF accept >= CHECKOUT
             THEN Delta_apply(r, Change_delta(r, commit)) ELSE NoApply(r),
             s, folio_id, seqno, commit, accept)

\* generate_draft, the acceptance: a non-empty delta is applied to the working
\* tree when the caller accepts at least a checkout.
generate_draft_accept(r, s, folio_id, seqno, commit, accept) ==
    generate_draft_finalize(
        IF Change_delta(r, commit).paths # {} /\ accept >= CHECKOUT
        THEN Delta_apply(r, Change_delta(r, commit)) ELSE NoApply(r),
        s, folio_id, seqno, commit, accept)

\* generate_draft with a recorder that lives as long as the Drafter: the
\* operations recorded in earlier calls are persisted again with each draft.
generate_draft_record_shared(s, folio_id, change, accept) ==
    LET prompt_id == Len(s.prompts)
        seqno == s.prompts[Len(s.prompts)].seqno
        earlier == [k \in DOMAIN s.operations |->
                       [tool |-> s.operations[k].tool,
                        path |-> s.operations[k].path]]
    IN  IF change.err # Ok
        THEN Result(change.repo, s, change.err, folio_id, seqno, 0)
        ELSE generate_draft_accept(
                 Change_add_ref(change.repo, change.commit, folio_id, seqno),
                 add_operations(add_action(s, change.commit, prompt_id),
                                change.commit, earlier \o change.operations),
                 folio_id, seqno, change.commit, accept)

\* generate_draft, the records: the draft ref, the action row and the
\* operation rows of the change.  s is the store with the prompt's row added.
generate_draft_record(s, folio_id, change, accept) ==
    LET prompt_id == Len(s.prompts)
        seqno == s.prompts[Len(s.prompts)].seqno
    IN  IF change.err # Ok
        THEN Result(change.repo, s, change.err, folio_id, seqno, 0)
        ELSE generate_draft_accept(
                 Change_add_ref(change.repo, change.commit, folio_id, seqno),
                 add_operations(add_action(s, change.commit, prompt_id),
                                change.commit, change.operations),
                 folio_id, seqno, change.commit, accept)

\* generate_draft, the prompt: it is prepared and recorded, and the bot acts.
\* cb is the outcome of entering the folio's branch.
generate_draft_prompt(cb, prompt, bot, accept) ==
    IF cb.err # Ok THEN Result(cb.repo, cb.store, cb.err, 0, 0, 0)
    ELSE IF strip(prompt) = <<>>
    THEN Result(cb.repo, cb.store, EmptyPromptError, cb.folio_id, 0, 0)
    ELSE generate_draft_record(add_prompt(cb.store, cb.folio_id, prompt),
                               cb.folio_id,
                               generate_change(cb.repo, prompt, bot), accept)

\* generate_draft, the branch: the active draft branch is reused after a
\* staging, otherwise a new one is created.
\* The branch step of generate_draft that always creates a folio and a
\* branch, on a draft branch too.
generate_draft_branch_new_folio(r, s) == create_branch(r, s)

generate_draft_branch(r, s) ==
    IF Branch_active(r) # <<>>
    THEN [repo |-> stage_changes(r), store |-> s, err |-> Ok,
          folio_id |-> Branch_active(r)[1]]
    ELSE create_branch(r, s)

\* generate_draft
generate_draft(r, s, prompt, bot, accept, reset) ==
    IF has_staged_changes(r) /\ ~reset
    THEN Result(r, s, PendingChangesError, 0, 0, 0)
    ELSE generate_draft_prompt(
             generate_draft_branch(
                 IF has_staged_changes(r) THEN GitReset(r) ELSE r, s),
             prompt, bot, accept)

\* latest_draft_prompt that does not look at the active branch: the latest
\* prompt of the newest folio.
latest_draft_prompt_any_branch(r, s) ==
    get_latest_folio_prompt(s, Len(s.folios))

\* latest_draft_prompt: the prompt as an option, <<>> for None
latest_draft_prompt(r, s) ==
    IF Branch_active(r) = <<>> THEN <<>>
    ELSE get_latest_folio_prompt(s, Branch_active(r)[1])

\* ----------------------------------------------------------------- actions

InitCommit == [parent |-> 0, tree |-> InitTree,
               message |-> [title |-> "init", prompt |-> <<>>]]

Init ==
    /\ repo = [commits |-> <<InitCommit>>,
               branches |-> (Main :> 1),
               head |-> [branch |-> Main, sha |-> 0],
               index |-> InitTree,
               unmerged |-> {},
               worktree |-> InitTree,
               refs |-> <<>>,
               config |-> <<>>,
               notes |-> <<>>]
    /\ store = [folios |-> <<>>, prompts |-> <<>>, actions |-> <<>>,
                operations |-> <<>>]
    /\ log = <<>>
    /\ edits = 0
    /\ surface = [overlay |-> InitTree, session |-> <<>>]

NoopBot == [ops |-> <<>>, direct |-> <<>>, raises |-> FALSE]

\* The inputs of generate_draft that can differ in effect: reset is read only
\* when something is staged, the accept mode only once the prompt is found
\* non-empty and the bot has returned, and of the prompt's text nothing but
\* whether it is blank, so that one text goes with every bot.
GenerateInputs(r, prompt, bot, accept, reset) ==
    /\ prompt # <<"y", "o", "\n">> \/ bot \in {NoopBot, RaisingBot}
    /\ reset => has_staged_changes(r)
    /\ strip(prompt) = <<>> => accept = MANUAL
    /\ prompt = <<>> => bot = NoopBot
    /\ bot.raises => accept = MANUAL

\* A call of Drafter.generate_draft.
GenerateDraft ==
    /\ Len(log) < MaxCalls
    /\ Len(log) + edits < MaxSteps \/ Len(log) = 0
    /\ \E prompt \in Prompts, bot \in Bots, accept \in Accept, reset \in BOOLEAN :
         /\ GenerateInputs(repo, prompt, bot, accept, reset)
         /\ \E out \in {generate_draft(repo, store, prompt, bot, accept, reset)} :
                /\ repo' = out.repo
                /\ store' = out.store
                /\ log' = Append(log,
                       [op |-> "generate_draft",
                        args |-> [prompt |-> prompt, bot |-> bot,
                                  accept |-> accept, reset |-> reset],
                        err |-> out.err, folio_id |-> out.folio_id,
                        seqno |-> out.seqno, commit |-> out.commit,
                        pre |-> [repo |-> repo, store |-> store],
                        post |-> [repo |-> out.repo, store |-> out.store]])
    /\ UNCHANGED <<edits, surface>>

\* A call of Drafter.finalize_folio.
FinalizeFolio ==
    /\ Len(log) < MaxCalls
    /\ Len(log) + edits < MaxSteps
    /\ \E out \in {finalize_folio(repo, store)} :
           /\ repo' = out.repo
           /\ log' = Append(log,
                  [op |-> "finalize_folio", args |-> <<>>,
                   err |-> out.err, folio_id |-> 0, seqno |-> 0, commit |-> 0,
                   pre |-> [repo |-> repo, store |-> store],
                   post |-> [repo |-> out.repo, store |-> store]])
    /\ UNCHANGED <<store, edits, surface>>

\* The user writes a file of the working tree.
UserWrite ==
    /\ Len(log) + edits < MaxSteps
    /\ \E p \in Paths, c \in UserContents :
         /\ Opt(repo.worktree, p) # <<c>>
         /\ repo' = [repo EXCEPT !.worktree = Put(@, p, c)]
    /\ edits' = edits + 1
    /\ UNCHANGED <<store, log, surface>>

\* The user removes a file of the working tree.
UserDelete ==
    /\ Len(log) + edits < MaxSteps
    /\ \E p \in DOMAIN repo.worktree :
         repo' = [repo EXCEPT !.worktree = Del(@, p)]
    /\ edits' = edits + 1
    /\ UNCHANGED <<store, log, surface>>

\* The user runs git add --all.
UserAdd ==
    /\ Len(log) + edits < MaxSteps
    /\ repo.index # repo.worktree
    /\ repo' = GitAddAll(repo)
    /\ edits' = edits + 1
    /\ UNCHANGED <<store, log, surface>>

\* The user runs git checkout --detach.
UserDetach ==
    /\ Len(log) + edits < MaxSteps
    /\ active_branch(repo) # NoBranch
    /\ repo' = GitCheckoutDetach(repo)
    /\ edits' = edits + 1
    /\ UNCHANGED <<store, log, surface>>

\* A commit lands on the origin branch while it is not checked out.
OriginAdvance ==
    /\ Len(log) + edits < MaxSteps
    /\ active_branch(repo) # Main
    /\ \E c \in UserContents :
         LET tip == repo.branches[Main]
             new == [parent |-> tip,
                     tree |-> Put(repo.commits[tip].tree, "p1", c),
                     message |-> UserMessage]
         IN  repo' = [repo EXCEPT !.commits = Append(@, new),
                                  !.branches[Main] = Len(repo.commits) + 1]
    /\ edits' = edits + 1
    /\ UNCHANGED <<store, log, surface>>

Next ==
    \/ GenerateDraft
    \/ FinalizeFolio
    \/ UserWrite
    \/ UserDelete
    \/ UserAdd
    \/ UserDetach
    \/ OriginAdvance

Spec == Init /\ [][Next]_vars

\* ----------------------------------------------------- unrecorded branches
\* The Drafter over a store that has no row for the draft branch checked
\* out: the user has made the branch by hand.

\* The user runs git checkout -b drafts/<n>.
UserCheckoutNew ==
    /\ Len(log) + edits < MaxSteps
    /\ \E n \in 1..2 :
         /\ Branch_name(n) \notin DOMAIN repo.branches
         /\ repo' = checkout_new_branch(repo, Branch_name(n))
    /\ edits' = edits + 1
    /\ UNCHANGED <<store, log, surface>>

NextUnrecorded ==
    \/ UserCheckoutNew
    \/ FinalizeFolio
    \/ UserWrite
    \/ UserDelete
    \/ UserAdd

SpecUnrecorded == Init /\ [][NextUnrecorded]_vars

\* ---------------------------------------------------------------- toolbox
\* A bot's calls on one toolbox over the repository, one call per step.

MaxToolboxCalls == 3

ToolboxContents == {<<>>, <<"c">>, <<"c", "\n">>}

ToolboxEntry(tool, path, contents, result, r) ==
    [op |-> tool, args |-> [path |-> path, contents |-> contents],
     result |-> result, pre |-> [repo |-> repo], post |-> [repo |-> r]]

ToolboxWriteFile ==
    /\ Len(log) < MaxToolboxCalls
    /\ \E p \in Paths, c \in ToolboxContents :
         \E r \in {Toolbox_write_file(repo, p, c)} :
            /\ repo' = r
            /\ log' = Append(log, ToolboxEntry("write_file", p, c, <<>>, r))
    /\ UNCHANGED <<store, edits, surface>>

ToolboxReadFile ==
    /\ Len(log) < MaxToolboxCalls
    /\ \E p \in Paths :
         log' = Append(log, ToolboxEntry("read_file", p, <<>>,
                                         Toolbox_read_file(repo, p), repo))
    /\ UNCHANGED <<repo, store, edits, surface>>

ToolboxDeleteFile ==
    /\ Len(log) < MaxToolboxCalls
    /\ \E p \in Paths :
         \E r \in {Toolbox_delete_file(repo, p)} :
            /\ repo' = r
            /\ log' = Append(log, ToolboxEntry("delete_file", p, <<>>, <<>>, r))
    /\ UNCHANGED <<store, edits, surface>>

NextToolbox ==
    \/ ToolboxWriteFile
    \/ ToolboxReadFile
    \/ ToolboxDeleteFile
    \/ UserWrite
    \/ UserDelete

SpecToolbox == Init /\ [][NextToolbox]_vars

\* ------------------------------------------------------------- worktree
\* A GitWorktree bound to the repository's first commit: surface.overlay is
\* its files by path, surface.session the open editing session as an option,
\* with the overlay at entry and the files of the yielded directory.

MaxWorktreeCalls == 4

WorktreeEntry(tool, path, contents, result, r, t) ==
    [op |-> tool, args |-> [path |-> path, contents |-> contents],
     result |-> result, pre |-> [repo |-> repo, surface |-> surface],
     post |-> [repo |-> r, surface |-> t]]

\* read_file that reads the yielded directory while a session is open.
Worktree_read_file_session(t, path) ==
    IF t.session # <<>> THEN Opt(t.session[1].dir, path)
    ELSE IF path \in DOMAIN t.overlay
    THEN <<GitCall_stdout(t.overlay[path])>> ELSE <<>>

\* read_file: the overlay's contents of the path as the git call returns
\* them, as an option: <<>> (None) when the overlay has no such path.
Worktree_read_file(t, path) ==
    IF path \in DOMAIN t.overlay THEN <<GitCall_stdout(t.overlay[path])>>
    ELSE <<>>

Worktree_write_file(t, path, data) == [t EXCEPT !.overlay = Put(@, path, data)]

Worktree_delete_file(t, path) ==
    IF path \in DOMAIN t.overlay THEN [t EXCEPT !.overlay = Del(@, path)] ELSE t

\* edit_files, entering: the overlay is written out to the directory.
Worktree_edit_files_enter(t) ==
    [t EXCEPT !.session = <<[entry |-> t.overlay, dir |-> t.overlay]>>]

\* edit_files, leaving: what the directory has added, changed or removed
\* since entry is folded into the overlay.
Worktree_edit_files_exit(t) ==
    LET entry == t.session[1].entry
        dir == t.session[1].dir
        changed == ChangedPaths(entry, dir)
        kept == {p \in Paths : IF p \in changed THEN p \in DOMAIN dir
                                                ELSE p \in DOMAIN t.overlay}
    IN  [overlay |-> [p \in kept |-> IF p \in changed THEN dir[p]
                                                       ELSE t.overlay[p]],
         session |-> <<>>]

WorktreeWriteFile ==
    /\ Len(log) < MaxWorktreeCalls
    /\ surface.session = <<>>
    /\ \E p \in Paths, c \in BotContents :
         \E t \in {Worktree_write_file(surface, p, c)} :
            /\ surface' = t
            /\ log' = Append(log, WorktreeEntry("write_file", p, c, <<>>, repo, t))
    /\ UNCHANGED <<repo, store, edits>>

WorktreeDeleteFile ==
    /\ Len(log) < MaxWorktreeCalls
    /\ surface.session = <<>>
    /\ \E p \in Paths :
         \E t \in {Worktree_delete_file(surface, p)} :
            /\ surface' = t
            /\ log' = Append(log, WorktreeEntry("delete_file", p, <<>>, <<>>, repo, t))
    /\ UNCHANGED <<repo, store, edits>>

WorktreeReadFile ==
    /\ Len(log) < MaxWorktreeCalls
    /\ \E p \in Paths :
         log' = Append(log, WorktreeEntry("read_file", p, <<>>,
                                          Worktree_read_file(surface, p),
                                          repo, surface))
    /\ UNCHANGED <<repo, store, edits, surface>>

\* list_files: the overlay's paths
WorktreeListFiles ==
    /\ Len(log) < MaxWorktreeCalls
    /\ log' = Append(log, WorktreeEntry("list_files", "", <<>>,
                                        DOMAIN surface.overlay,
                                        repo, surface))
    /\ UNCHANGED <<repo, store, edits, surface>>

WorktreeEditFilesEnter ==
    /\ Len(log) < MaxWorktreeCalls
    /\ surface.session = <<>>
    /\ \E t \in {Worktree_edit_files_enter(surface)} :
          /\ surface' = t
          /\ log' = Append(log, WorktreeEntry("edit_files", "", <<>>,
                                              t.session[1].dir, repo, t))
    /\ UNCHANGED <<repo, store, edits>>

\* Whatever runs in the yielded directory writes or removes a file there.
SessionWrite ==
    /\ Len(log) < MaxWorktreeCalls
    /\ surface.session # <<>>
    /\ \E p \in Paths, c \in BotContents :
         \E t \in {[surface EXCEPT !.session[1].dir = Put(@, p, c)]} :
            /\ surface' = t
            /\ log' = Append(log, WorktreeEntry("session_write", p, c, <<>>, repo, t))
    /\ UNCHANGED <<repo, store, edits>>

SessionDelete ==
    /\ Len(log) < MaxWorktreeCalls
    /\ surface.session # <<>>
    /\ \E p \in DOMAIN surface.session[1].dir :
         \E t \in {[surface EXCEPT !.session[1].dir = Del(@, p)]} :
            /\ surface' = t
            /\ log' = Append(log, WorktreeEntry("session_delete", p, <<>>, <<>>, repo, t))
    /\ UNCHANGED <<repo, store, edits>>

WorktreeEditFilesExit ==
    /\ surface.session # <<>>
    /\ \E t \in {Worktree_edit_files_exit(surface)} :
          /\ surface' = t
          /\ log' = Append(log, WorktreeEntry("edit_files_exit", "", <<>>, <<>>,
                                              repo, t))
    /\ UNCHANGED <<repo, store, edits>>

\* RepoFS.write, RepoFS.delete: the user's working tree changes.
RepoFSWrite ==
    /\ Len(log) < MaxWorktreeCalls
    /\ \E p \in Paths, c \in UserContents :
         \E r \in {[repo EXCEPT !.worktree = Put(@, p, c)]} :
            /\ repo' = r
            /\ log' = Append(log, WorktreeEntry("fs_write", p, c, <<>>, r, surface))
    /\ UNCHANGED <<store, edits, surface>>

\* RepoFS.flush: git add -A and git commit --allow-empty
RepoFSFlush ==
    /\ Len(log) < MaxWorktreeCalls
    /\ \E r \in {create_commit(GitAddAll(repo), UserMessage)} :
          /\ repo' = r
          /\ log' = Append(log, WorktreeEntry("fs_flush", "", <<>>, <<>>, r, surface))
    /\ UNCHANGED <<store, edits, surface>>

NextWorktree ==
    \/ WorktreeWriteFile
    \/ WorktreeDeleteFile
    \/ WorktreeReadFile
    \/ WorktreeListFiles
    \/ WorktreeEditFilesEnter
    \/ SessionWrite
    \/ SessionDelete
    \/ WorktreeEditFilesExit
    \/ RepoFSWrite
    \/ RepoFSFlush

SpecWorktree == Init /\ [][NextWorktree]_vars

\* ------------------------------------------------------ manager.py: Manager
\* The Manager keeps a draft on a branch drafts/<parent>/<suffix> and the
\* commits the draft started from in a note. repo.notes maps a commit to the
\* notes appended to it, in order.

MaxManagerCalls == 2

\* What an assistant does with the toolbox: write_file calls in order.
Assistants ==
    {<<>>} \cup {<<[path |-> p, contents |-> <<"c">>]>> : p \in Paths}

DetachedHeadError == "TypeError: HEAD is a detached symbolic reference"

ParentMovedError == "ValueError: Parent branch has moved"

GitCommandError == "GitCommandError"

\* _Branch.__str__
ManagerBranch_str(b) == <<PREFIX>> \o b.parent \o <<b.suffix>>

\* _Branch._name_pattern.fullmatch, as an option: the parent is what stands
\* between the prefix and the last component.
ManagerBranch_fullmatch(name) ==
    IF Len(name) >= 3 /\ name[1] = PREFIX
    THEN <<[parent |-> SubSeq(name, 2, Len(name) - 1), suffix |-> name[Len(name)]]>>
    ELSE <<>>

\* _Branch.active: the draft branch HEAD is on; with create, a new draft
\* branch off the active branch is created and checked out when HEAD is on
\* no draft branch.
ManagerBranch_active(r, create, suffix) ==
    IF active_branch(r) = NoBranch
    THEN [repo |-> r, err |-> DetachedHeadError, branch |-> <<>>]
    ELSE IF ManagerBranch_fullmatch(active_branch(r)) # <<>>
    THEN [repo |-> r, err |-> Ok,
          branch |-> ManagerBranch_fullmatch(active_branch(r))]
    ELSE IF ~create
    THEN [repo |-> r, err |-> NotOnDraftBranchError, branch |-> <<>>]
    ELSE LET b == [parent |-> active_branch(r), suffix |-> suffix]
         IN  [repo |-> checkout_new_branch(r, ManagerBranch_str(b)),
              err |-> Ok, branch |-> <<b>>]

\* repo.is_dirty(): staged changes, or changes of tracked files in the working
\* tree; untracked files do not count.
is_dirty(r) ==
    \/ has_staged_changes(r)
    \/ \E p \in DOMAIN r.index : Opt(r.worktree, p) # <<r.index[p]>>

\* _Note.write: git notes append on the commit the ref names
Note_write(r, note, ref) ==
    LET sha == r.branches[ref]
    IN  [r EXCEPT !.notes = (sha :> (IF sha \in DOMAIN @ THEN @[sha] ELSE <<>>)
                                        \o <<note>>) @@ @]

\* _Note.read: the first note of the commit the ref names, as an option
Note_read(r, ref) ==
    LET sha == r.branches[ref]
    IN  IF sha \in DOMAIN r.notes THEN <<Head(r.notes[sha])>> ELSE <<>>

RECURSIVE Assistant_run(_, _)
Assistant_run(r, ops) ==
    IF ops = <<>> THEN r
    ELSE Assistant_run(Toolbox_write_file(r, Head(ops).path, Head(ops).contents),
                       Tail(ops))

\* Manager.generate_draft: the draft branch; the index, which is to have no
\* entries (repo.index.entries, staged changes or not) unless it is reset;
\* the sync commit; the note; the assistant; the prompt commit.
Manager_generate_draft(r, prompt, assistant, reset, suffix) ==
    LET b == ManagerBranch_active(r, TRUE, suffix)
        entries == DOMAIN b.repo.index \cup b.repo.unmerged
        r1 == IF entries # {} THEN GitReset(b.repo) ELSE b.repo
        ref == head_commit(r1)
        dirty == is_dirty(r1)
        r2 == IF dirty THEN create_commit(GitAddAll(r1), SyncMessage) ELSE r1
        note == [sha |-> ref, dirty_sha |-> IF dirty THEN head_commit(r2) ELSE 0]
    IN  IF prompt = <<>> THEN [repo |-> r, err |-> EmptyPromptError]
        ELSE IF b.err # Ok THEN [repo |-> r, err |-> b.err]
        ELSE IF entries # {} /\ ~reset
        THEN [repo |-> b.repo, err |-> PendingChangesError]
        ELSE IF b.branch[1].parent \notin DOMAIN r2.branches
        THEN [repo |-> r2, err |-> GitCommandError]
        ELSE [repo |-> create_commit(
                           Assistant_run(Note_write(r2, note, b.branch[1].parent),
                                         assistant),
                           [title |-> "draft! prompt", prompt |-> prompt]),
              err |-> Ok]

\* git reset <sha>: HEAD and the index move to the commit.
GitResetSha(r, sha) ==
    IF r.head.branch = NoBranch
    THEN [r EXCEPT !.head.sha = sha, !.index = r.commits[sha].tree,
                   !.unmerged = {}]
    ELSE [r EXCEPT !.branches[r.head.branch] = sha,
                   !.index = r.commits[sha].tree, !.unmerged = {}]

\* git reset --hard <sha>: the tracked files of the working tree follow;
\* untracked files stay.
GitResetHardSha(r, sha) ==
    LET tree == r.commits[sha].tree
        kept == {p \in DOMAIN r.worktree :
                    p \notin DOMAIN r.index \cup r.unmerged \cup DOMAIN tree}
    IN  [GitResetSha(r, sha) EXCEPT
            !.worktree = [p \in DOMAIN tree \cup kept |->
                             IF p \in DOMAIN tree THEN tree[p] ELSE r.worktree[p]]]

\* git checkout <branch>: the paths that differ between HEAD's tree and the
\* branch's take the branch's files; git refuses when one of them has local
\* changes.
GitCheckoutBranch(r, branch) ==
    LET from == HeadTree(r)
        to == r.commits[r.branches[branch]].tree
        moved == ChangedPaths(from, to)
        take(t) == [p \in {q \in Paths : IF q \in moved THEN q \in DOMAIN to
                                                          ELSE q \in DOMAIN t} |->
                       IF p \in moved THEN to[p] ELSE t[p]]
    IN  IF \E p \in moved : \/ Opt(r.index, p) # Opt(from, p)
                             \/ Opt(r.worktree, p) # Opt(from, p)
        THEN [repo |-> r, err |-> GitCommandError]
        ELSE [repo |-> [r EXCEPT !.head = [branch |-> branch, sha |-> 0],
                                 !.index = take(r.index),
                                 !.worktree = take(r.worktree)],
              err |-> Ok]

\* Manager._exit_draft
Manager_exit_draft(r, apply, delete) ==
    LET b == ManagerBranch_active(r, FALSE, "")
        name == ManagerBranch_str(b.branch[1])
        note == Note_read(r, name)
        r1 == GitCheckoutDetach(r)
        r2 == IF apply THEN GitResetSha(r1, note[1].sha)
              ELSE GitResetHardSha(r1, IF note[1].dirty_sha # 0
                                       THEN note[1].dirty_sha ELSE note[1].sha)
        out == IF b.branch[1].parent \in DOMAIN r2.branches
               THEN GitCheckoutBranch(r2, b.branch[1].parent)
               ELSE [repo |-> r2, err |-> GitCommandError]
    IN  IF b.err # Ok THEN [repo |-> r, err |-> b.err]
        ELSE IF note = <<>> THEN [repo |-> r, err |-> GitCommandError]
        ELSE IF r.branches[name] # note[1].sha
        THEN [repo |-> r, err |-> ParentMovedError]
        ELSE IF out.err # Ok \/ ~delete THEN out
        ELSE [repo |-> GitBranchDelete(out.repo, name), err |-> Ok]

ManagerEntry(op, args, out) ==
    [op |-> op, args |-> args, err |-> out.err,
     pre |-> [repo |-> repo], post |-> [repo |-> out.repo]]

ManagerGenerateDraft ==
    /\ Len(log) < MaxManagerCalls
    /\ \E prompt \in {<<>>, <<"h", "i">>}, assistant \in Assistants,
          reset \in BOOLEAN, suffix \in {"s1", "s2"} :
         /\ <<PREFIX>> \o active_branch(repo) \o <<suffix>>
                \notin DOMAIN repo.branches
         /\ \E out \in {Manager_generate_draft(repo, prompt, assistant,
                                                reset, suffix)} :
              /\ repo' = out.repo
              /\ log' = Append(log, ManagerEntry("generate_draft",
                                   [prompt |-> prompt, assistant |-> assistant,
                                    reset |-> reset, delete |-> FALSE], out))
    /\ UNCHANGED <<store, edits, surface>>

ManagerFinalizeDraft ==
    /\ Len(log) < MaxManagerCalls
    /\ \E delete \in BOOLEAN :
         \E out \in {Manager_exit_draft(repo, TRUE, delete)} :
            /\ repo' = out.repo
            /\ log' = Append(log, ManagerEntry("finalize_draft",
                                 [prompt |-> <<>>, assistant |-> <<>>,
                                  reset |-> FALSE, delete |-> delete], out))
    /\ UNCHANGED <<store, edits, surface>>

ManagerDiscardDraft ==
    /\ Len(log) < MaxManagerCalls
    /\ \E delete \in BOOLEAN :
         \E out \in {Manager_exit_draft(repo, FALSE, delete)} :
            /\ repo' = out.repo
            /\ log' = Append(log, ManagerEntry("discard_draft",
                                 [prompt |-> <<>>, assistant |-> <<>>,
                                  reset |-> FALSE, delete |-> delete], out))
    /\ UNCHANGED <<store, edits, surface>>

NextManager ==
    \/ ManagerGenerateDraft
    \/ ManagerFinalizeDraft
    \/ ManagerDiscardDraft
    \/ UserWrite
    \/ UserDelete
    \/ UserAdd
    \/ UserDetach

SpecManager == Init /\ [][NextManager]_vars

\* ------------------------------------------------------- git.py: GitCall
\* Calls of GitCall.sync with the exit code and the output the command gave.

MaxGitCalls == 2

GitError == "GitError"

ExitCodes == {0, 1, 128}

ExpectCodes == {{}, {0}, {0, 1}}

Outputs == {<<>>, <<"x">>, <<"x", "\n">>, <<"x", " ", "y", "\t", "\n">>}

\* GitCall.sync that raises for every code outside expect_codes.
GitCall_sync_strict(expect_codes, code, stdout, stderr) ==
    IF code \notin expect_codes
    THEN [err |-> GitError, code |-> code, stdout |-> <<>>, stderr |-> stderr]
    ELSE [err |-> Ok, code |-> code, stdout |-> rstrip(stdout),
          stderr |-> rstrip(stderr)]

\* GitCall.sync once the command has ended: GitError, with the code and
\* stderr in its message, or the call with its code and stripped output.
GitCall_sync(expect_codes, code, stdout, stderr) ==
    IF expect_codes # {} /\ code \notin expect_codes
    THEN [err |-> GitError, code |-> code, stdout |-> <<>>, stderr |-> stderr]
    ELSE [err |-> Ok, code |-> code, stdout |-> rstrip(stdout),
          stderr |-> rstrip(stderr)]

GitCallSync ==
    /\ Len(log) < MaxGitCalls
    /\ \E expect_codes \in ExpectCodes, code \in ExitCodes,
          stdout \in Outputs, stderr \in {<<>>, <<"e", "\n">>} :
         log' = Append(log,
                  [op |-> "sync",
                   args |-> [expect_codes |-> expect_codes, code |-> code,
                             stdout |-> stdout, stderr |-> stderr],
                   result |-> GitCall_sync(expect_codes, code, stdout, stderr)])
    /\ UNCHANGED <<repo, store, edits, surface>>

NextGateway == GitCallSync

SpecGateway == Init /\ [][NextGateway]_vars

\* ---------------------------------------------------- git.py: identity
\* Repo.enclosing on paths of the repository; config is the value of
\* draft.repouuid in the repository's configuration, as an option.

MaxEnclosingCalls == 3

WorkingDir == <<"/", "w">>

EnclosingPaths == {WorkingDir, WorkingDir \o <<"/", "a">>,
                   WorkingDir \o <<"/", "a", "/", "b">>}

\* UUIDs are sequences of hexadecimal digits' values.
UUIDs == {<<1, 10>>, <<1, 11>>, <<15, 0>>}

\* uuid.UUID(text)
UUID(text) ==
    [k \in DOMAIN text |-> CHOOSE d \in 0 .. 15 : HexChars[d + 1] = text[k]]

\* git config get draft.repouuid: the value and a newline with code 0, or
\* code 1 when the key is not set
GitConfigGet(r) ==
    IF r.config = <<>> THEN GitCall_sync({}, 1, <<>>, <<>>)
    ELSE GitCall_sync({}, 0, r.config[1] \o <<"\n">>, <<>>)

\* git config set draft.repouuid value
GitConfigSet(r, value) == [r EXCEPT !.config = <<value>>]

\* _ensure_repo_uuid that does not look at the configuration first.
ensure_repo_uuid_always(r, fresh) ==
    [repo |-> GitConfigSet(r, str_uuid(fresh)), uuid |-> fresh]

\* _ensure_repo_uuid; fresh is what uuid.uuid4() gives if it is called
ensure_repo_uuid(r, fresh) ==
    IF GitConfigGet(r).code = 0
    THEN [repo |-> r, uuid |-> UUID(GitConfigGet(r).stdout)]
    ELSE [repo |-> GitConfigSet(r, str_uuid(fresh)), uuid |-> fresh]

\* git rev-parse --show-toplevel in a directory of the repository
GitShowToplevel(path) ==
    GitCall_sync({0}, 0, WorkingDir \o <<"\n">>, <<>>)

\* Repo.enclosing
Repo_enclosing(r, path, fresh) ==
    [working_dir |-> GitShowToplevel(path).stdout,
     out |-> ensure_repo_uuid(r, fresh)]

RepoEnclosing ==
    /\ Len(log) < MaxEnclosingCalls
    /\ \E path \in EnclosingPaths, fresh \in UUIDs :
         \E call \in {Repo_enclosing(repo, path, fresh)} :
            /\ repo' = call.out.repo
            /\ log' = Append(log,
                     [op |-> "enclosing",
                      args |-> [path |-> path, fresh |-> fresh],
                      working_dir |-> call.working_dir,
                      uuid |-> call.out.uuid,
                      pre |-> [repo |-> repo],
                      post |-> [repo |-> call.out.repo]])
    /\ UNCHANGED <<store, edits, surface>>

NextIdentity == RepoEnclosing

SpecIdentity == Init /\ [][NextIdentity]_vars

\* ----------------------------------------------------- drafter.py: _Branch
\* Branch names as texts: _Branch.name builds them, _Branch.active parses them.

MaxBranchCalls == 2

MaxFolioId == 12

ValueError == "ValueError: Not a valid draft branch"

Digits == <<"0", "1", "2", "3", "4", "5", "6", "7", "8", "9">>

DigitChars == {Digits[k] : k \in DOMAIN Digits}

\* str(n) for n >= 0, as the f-string formats the folio id
RECURSIVE str_int(_)
str_int(n) ==
    IF n < 10 THEN <<Digits[n + 1]>>
    ELSE str_int(n \div 10) \o <<Digits[(n % 10) + 1]>>

\* int(s) for a text of decimal digits
RECURSIVE int_str(_)
int_str(s) ==
    IF s = <<>> THEN 0
    ELSE 10 * int_str(SubSeq(s, 1, Len(s) - 1))
             + (CHOOSE d \in 0 .. 9 : Digits[d + 1] = s[Len(s)])

PrefixText == <<"d", "r", "a", "f", "t", "s", "/">>

\* _Branch.name as a text
Branch_name_text(folio_id) == PrefixText \o str_int(folio_id)

\* re.match in place of re.fullmatch: the digits after the prefix, whatever
\* follows them.
Branch_pattern_match(text) ==
    IF /\ Len(text) > Len(PrefixText)
       /\ SubSeq(text, 1, Len(PrefixText)) = PrefixText
       /\ text[Len(PrefixText) + 1] \in DigitChars
    THEN <<SelectSeq(SubSeq(text, Len(PrefixText) + 1, Len(text)),
                     LAMBDA c : c \in DigitChars)>>
    ELSE <<>>

\* _pattern.fullmatch: the group of digits as an option, <<>> without match
Branch_pattern_fullmatch(text) ==
    IF /\ Len(text) > Len(PrefixText)
       /\ SubSeq(text, 1, Len(PrefixText)) = PrefixText
       /\ \A k \in Len(PrefixText) + 1 .. Len(text) : text[k] \in DigitChars
    THEN <<SubSeq(text, Len(PrefixText) + 1, Len(text))>>
    ELSE <<>>

\* _Branch.active(repo, name) on texts: name is the argument (<<>> is both
\* None and the empty string, which the code does not tell apart), active the
\* output of git branch --show-current (<<>> when HEAD is detached).  The
\* result is the folio id as an option, or ValueError.
Branch_active_text(active, name) ==
    LET branch == IF name # <<>> THEN name ELSE active
        match == IF branch # <<>>
                 THEN Branch_pattern_fullmatch(branch) ELSE <<>>
    IN  IF match = <<>>
        THEN [err |-> IF name # <<>> THEN ValueError ELSE Ok, folio_id |-> <<>>]
        ELSE [err |-> Ok, folio_id |-> <<int_str(match[1])>>]

BranchTexts ==
    {<<>>, <<"m", "a", "i", "n">>, PrefixText, PrefixText \o <<"x">>,
     PrefixText \o <<"1", "x">>, <<"x">> \o PrefixText \o <<"1">>,
     PrefixText \o <<"0", "7">>, PrefixText \o <<"3">>,
     PrefixText \o <<"3", "\n">>, PrefixText \o <<"-", "1">>}

BranchEntry(passed, active, name, folio_id) ==
    [op |-> "active",
     args |-> [passed |-> passed, active |-> active, name |-> name,
               folio_id |-> folio_id],
     result |-> Branch_active_text(active, name)]

\* _Branch.active on the name _Branch(folio_id).name, passed or checked out.
BranchOfFolio ==
    /\ Len(log) < MaxBranchCalls
    /\ \E n \in 0 .. MaxFolioId, passed \in BOOLEAN :
         log' = Append(log,
                  IF passed
                  THEN BranchEntry(TRUE, <<>>, Branch_name_text(n), <<n>>)
                  ELSE BranchEntry(FALSE, Branch_name_text(n), <<>>, <<n>>))
    /\ UNCHANGED <<repo, store, edits, surface>>

\* _Branch.active on any name, passed or not, with any branch checked out.
BranchActive ==
    /\ Len(log) < MaxBranchCalls
    /\ \E active \in BranchTexts, name \in BranchTexts, passed \in BOOLEAN :
         /\ ~passed => name = <<>>
         /\ log' = Append(log, BranchEntry(passed, active, name, <<>>))
    /\ UNCHANGED <<repo, store, edits, surface>>

NextBranch ==
    \/ BranchOfFolio
    \/ BranchActive

SpecBranch == Init /\ [][NextBranch]_vars

\* ------------------------------------------------------------------ claims

Calls == DOMAIN log

GenerateCalls == {i \in Calls : log[i].op = "generate_draft"}

FinalizeCalls == {i \in Calls : log[i].op = "finalize_folio"}

DraftBranches(r) == {b \in DOMAIN r.branches : Len(b) = 2 /\ b[1] = PREFIX}

\* The call started on a checked-out branch that is no draft branch.
OnOriginBranch(r) == active_branch(r) # NoBranch /\ Branch_active(r) = <<>>

\* The paths the bot called write_file or delete_file on.
Touched(bot) == {bot.ops[k].path : k \in DOMAIN bot.ops}

\* The file the bot's toolbox calls leave at a path it touched, as an option.
BotFile(bot, p) ==
    LET k == CHOOSE k \in DOMAIN bot.ops :
                 /\ bot.ops[k].path = p
                 /\ \A j \in DOMAIN bot.ops : bot.ops[j].path = p => j <= k
    IN  IF bot.ops[k].tool = "write_file" THEN <<bot.ops[k].contents>> ELSE <<>>

\* The commits a commit reaches by parent links, itself included.
RECURSIVE Ancestors(_, _)
Ancestors(r, sha) == IF sha = 0 THEN {} ELSE {sha} \cup Ancestors(r, r.commits[sha].parent)

\* The precondition of C1: a non-draft branch, nothing staged, a non-empty
\* prompt, accept FINALIZE and a bot whose only call writes one new file.
C1_Case(i) ==
    LET e == log[i]
    IN  /\ i \in GenerateCalls
        /\ OnOriginBranch(e.pre.repo)
        /\ ~has_staged_changes(e.pre.repo)
        /\ strip(e.args.prompt) # <<>>
        /\ e.args.accept = FINALIZE
        /\ e.args.bot.direct = <<>>
        /\ Len(e.args.bot.ops) = 1
        /\ e.args.bot.ops[1].tool = "write_file"
        /\ e.args.bot.ops[1].path \notin DOMAIN e.pre.repo.worktree
        /\ e.args.bot.ops[1].path \notin DOMAIN HeadTree(e.pre.repo)

\* What C1 promises of call i: it ends on the branch it started on with the
\* file in the working tree, no drafts/<n> branch left, and exactly one new
\* folio, prompt, action and operation row (write_file of that path).
C1_Ends(i) ==
    LET e == log[i]
        op == e.args.bot.ops[1]
        s0 == e.pre.store
        s1 == e.post.store
    IN  /\ e.err = Ok
        /\ active_branch(e.post.repo) = active_branch(e.pre.repo)
        /\ Opt(e.post.repo.worktree, op.path) = <<op.contents>>
        /\ DraftBranches(e.post.repo) = {}
        /\ Len(s1.folios) = Len(s0.folios) + 1
        /\ Len(s1.prompts) = Len(s0.prompts) + 1
        /\ Len(s1.actions) = Len(s0.actions) + 1
        /\ Len(s1.operations) = Len(s0.operations) + 1
        /\ s1.operations[Len(s1.operations)] =
               [commit_sha |-> e.commit, tool |-> "write_file",
                path |-> op.path]
        /\ s1.actions[Len(s1.actions)].commit_sha = e.commit
        /\ s1.prompts[Len(s1.prompts)].folio_id = Len(s1.folios)

\* C1: generate_draft with accept FINALIZE and a bot writing one new file,
\* started on a non-draft branch B with nothing staged, ends on B with the
\* file in the working tree, no drafts/<n> branch left, and exactly one new
\* folio, prompt, action and operation row (write_file of that path).
C1_FinalizeScenario == \A i \in Calls : C1_Case(i) => C1_Ends(i)

\* C1 for a file whose text does not end with a newline, where it holds.
C1_NoFinalNewline ==
    \A i \in Calls :
        /\ C1_Case(i)
        /\ log[i].args.bot.ops[1].contents # <<>>
        /\ log[i].args.bot.ops[1].contents[Len(log[i].args.bot.ops[1].contents)] # "\n"
        => C1_Ends(i)

\* The precondition of C2: a non-draft branch, a non-empty prompt, accept
\* MANUAL and a bot that makes no toolbox call (nothing staged, nothing
\* written outside the toolbox either).
C2_Case(i) ==
    LET e == log[i]
    IN  /\ i \in GenerateCalls
        /\ OnOriginBranch(e.pre.repo)
        /\ ~has_staged_changes(e.pre.repo)
        /\ strip(e.args.prompt) # <<>>
        /\ e.args.accept = MANUAL
        /\ e.args.bot = NoopBot

\* C2: generate_draft with accept MANUAL and a no-op bot on a non-draft
\* branch checks out a new branch drafts/<folio id> holding exactly one
\* commit more than the origin head, dirty working tree or not.
C2_OneCommitOnNewBranch ==
    \A i \in Calls : C2_Case(i) =>
        LET e == log[i]
            r == e.post.repo
        IN  /\ e.err = Ok
            /\ e.folio_id = Len(e.pre.store.folios) + 1
            /\ active_branch(r) = Branch_name(e.folio_id)
            /\ Branch_name(e.folio_id) \notin DOMAIN e.pre.repo.branches
            /\ r.commits[head_commit(r)].parent = head_commit(e.pre.repo)

\* C2 on a clean working tree, where it holds.
C2_CleanTree ==
    \A i \in Calls :
        C2_Case(i) /\ log[i].pre.repo.worktree = HeadTree(log[i].pre.repo) =>
            LET r == log[i].post.repo
            IN  /\ log[i].err = Ok
                /\ r.commits[head_commit(r)].parent = head_commit(log[i].pre.repo)

\* C3: generate_draft with accept MANUAL and a bot acting only through the
\* toolbox leaves the working tree's files and their contents as they were.
C3_ManualKeepsWorktree ==
    \A i \in GenerateCalls :
        log[i].args.accept = MANUAL /\ log[i].args.bot.direct = <<>> =>
            log[i].post.repo.worktree = log[i].pre.repo.worktree

\* A MANUAL call whose bot wrote a file that is in the draft commit and not
\* in the working tree.
C3_Witness ==
    \E i \in GenerateCalls : \E p \in Paths :
        LET e == log[i]
        IN  /\ e.args.accept = MANUAL /\ e.args.bot.direct = <<>> /\ e.err = Ok
            /\ p \in Touched(e.args.bot)
            /\ BotFile(e.args.bot, p) # <<>>
            /\ Opt(e.post.repo.commits[e.commit].tree, p) = BotFile(e.args.bot, p)
            /\ Opt(e.post.repo.index, p) = BotFile(e.args.bot, p)
            /\ Opt(e.post.repo.worktree, p) # BotFile(e.args.bot, p)

\* The paths the draft commit of call i changes relative to its parent.
DraftDiff(i) ==
    LET r == log[i].post.repo
    IN  ChangedPaths(r.commits[r.commits[log[i].commit].parent].tree,
                     r.commits[log[i].commit].tree)

\* A call that produced a draft commit with a bot acting only through the
\* toolbox.
ToolboxDraft(i) ==
    i \in GenerateCalls /\ log[i].commit # 0 /\ log[i].args.bot.direct = <<>>

\* C4 as stated: the draft commit changes exactly the paths the bot wrote or
\* deleted.
C4_DiffIsTouched ==
    \A i \in Calls : ToolboxDraft(i) => DraftDiff(i) = Touched(log[i].args.bot)

\* C4 amended: the draft commit changes exactly the paths the bot wrote or
\* deleted whose resulting file differs from the working tree's file when
\* generate_draft was called; a dirty path the bot did not touch is never in
\* the diff.
C4_DiffIsChangedTouched ==
    \A i \in Calls : ToolboxDraft(i) =>
        DraftDiff(i) =
            {p \in Touched(log[i].args.bot) :
                BotFile(log[i].args.bot, p) # Opt(log[i].pre.repo.worktree, p)}

\* A draft whose bot wrote one path while another path was dirty, and whose
\* diff holds the written path only.
C4_Witness ==
    \E i \in Calls : \E p, q \in Paths :
        /\ ToolboxDraft(i)
        /\ p # q
        /\ Opt(log[i].pre.repo.worktree, q) # Opt(HeadTree(log[i].pre.repo), q)
        /\ Touched(log[i].args.bot) = {p}
        /\ DraftDiff(i) = {p}

\* The commits of a repository that the Drafter made: sync and draft commits.
DrafterCommits(r) ==
    {c \in DOMAIN r.commits : r.commits[c].message.title \in {"draft! sync", "draft!"}}

\* C5: no generate_draft or finalize_folio call moves the origin branch ref,
\* and no sync or draft commit is reachable from the origin branch.
C5_OriginNeverMoved ==
    /\ \A i \in Calls :
          log[i].post.repo.branches[Main] = log[i].pre.repo.branches[Main]
    /\ Ancestors(repo, repo.branches[Main]) \cap DrafterCommits(repo) = {}

\* A successful finalize_folio of a folio that had a sync commit and a draft
\* commit, back on the origin branch at the folio's origin commit.
C5_Witness ==
    \E i \in Calls :
        LET e == log[i]
            b == Branch_active(e.pre.repo)
        IN  /\ i \in FinalizeCalls /\ e.err = Ok
            /\ active_branch(e.post.repo) = Main
            /\ e.post.repo.branches[Main] = e.pre.store.folios[b[1]].origin_sha
            /\ \E c, d \in DrafterCommits(e.post.repo) :
                   /\ e.post.repo.commits[c].message = SyncMessage
                   /\ e.post.repo.commits[d].message.title = "draft!"

\* The precondition of C6: finalize_folio on the draft branch of a recorded
\* folio whose origin branch no longer points at the recorded origin commit.
C6_Case(i) ==
    LET e == log[i]
        b == Branch_active(e.pre.repo)
    IN  /\ i \in FinalizeCalls
        /\ b # <<>>
        /\ b[1] \in DOMAIN e.pre.store.folios
        /\ e.pre.repo.branches[e.pre.store.folios[b[1]].origin_branch]
               # e.pre.store.folios[b[1]].origin_sha

\* C6: finalize_folio fails, leaving the draft branch checked out and
\* undeleted, whenever the origin branch's commit differs from the origin
\* commit recorded for the folio.
C6_StaleOriginFails ==
    \A i \in Calls : C6_Case(i) =>
        /\ log[i].err # Ok
        /\ active_branch(log[i].post.repo) = active_branch(log[i].pre.repo)
        /\ active_branch(log[i].pre.repo) \in DOMAIN log[i].post.repo.branches

\* C7: finalize_folio called when the active branch is no draft branch fails
\* with the not-on-draft-branch error and changes nothing in the repository
\* or the history store.
C7_FinalizeOutsideDraft ==
    \A i \in FinalizeCalls :
        Branch_active(log[i].pre.repo) = <<>> =>
            /\ log[i].err = NotOnDraftBranchError
            /\ log[i].post = log[i].pre

\* A finalize_folio right after a generate_draft that finalized its folio,
\* with files in the working tree that the origin commit does not hold.
C7_Witness ==
    \E i \in FinalizeCalls :
        /\ i > 1
        /\ log[i - 1].op = "generate_draft"
        /\ log[i - 1].args.accept = FINALIZE
        /\ log[i - 1].err = Ok
        /\ log[i].pre = log[i - 1].post
        /\ log[i].pre.repo.worktree # HeadTree(log[i].pre.repo)
        /\ log[i].err = NotOnDraftBranchError

\* The precondition of C8: for some path, the checked-out origin commit holds
\* a, the working tree holds another content b, and the bot writes a third
\* content c through the toolbox, with accept CHECKOUT.
C8_Case(i, p) ==
    LET e == log[i]
    IN  /\ i \in GenerateCalls
        /\ OnOriginBranch(e.pre.repo)
        /\ ~has_staged_changes(e.pre.repo)
        /\ strip(e.args.prompt) # <<>>
        /\ e.args.accept = CHECKOUT
        /\ e.args.bot.direct = <<>>
        /\ p \in DOMAIN HeadTree(e.pre.repo)
        /\ p \in DOMAIN e.pre.repo.worktree
        /\ e.pre.repo.worktree[p] # HeadTree(e.pre.repo)[p]
        /\ p \in Touched(e.args.bot)
        /\ BotFile(e.args.bot, p) # <<>>
        /\ BotFile(e.args.bot, p) # Opt(HeadTree(e.pre.repo), p)
        /\ BotFile(e.args.bot, p) # Opt(e.pre.repo.worktree, p)

\* C8: in that case generate_draft raises ConflictError and the file holds
\* conflict markers around the working tree's and the bot's contents.
C8_CheckoutConflict ==
    \A i \in Calls : \A p \in Paths : C8_Case(i, p) =>
        /\ log[i].err = ConflictError
        /\ Opt(log[i].post.repo.worktree, p) =
               <<Markers(log[i].pre.repo.worktree[p], BotFile(log[i].args.bot, p)[1])>>

\* The paths of the draft of call i that the apply left unmerged, and those
\* it applied.
Conflicted(i) == log[i].post.repo.unmerged

Applied(i) == DraftDiff(i) \ Conflicted(i)

\* C9: when applying a draft raises ConflictError, the draft's paths that
\* applied without conflict hold the draft commit's files in the working
\* tree, and the conflicted files are in place with their markers.
C9_ConflictKeepsApplied ==
    \A i \in GenerateCalls : log[i].err = ConflictError =>
        LET r == log[i].post.repo
            draft == r.commits[log[i].commit].tree
        IN  /\ Conflicted(i) # {}
            /\ \A p \in Applied(i) : Opt(r.worktree, p) = Opt(draft, p)
            /\ \A p \in Conflicted(i) :
                   /\ p \in DOMAIN r.worktree
                   /\ r.worktree[p] =
                          Markers(DirectWrites(log[i].pre.repo.worktree,
                                               log[i].args.bot.direct)[p],
                                  draft[p])

\* A ConflictError with one path conflicted and another applied, the applied
\* one holding a file it did not hold before the call.
C9_Witness ==
    \E i \in GenerateCalls :
        /\ log[i].err = ConflictError
        /\ Conflicted(i) # {}
        /\ \E p \in Applied(i) :
             /\ Opt(log[i].post.repo.worktree, p) # Opt(log[i].pre.repo.worktree, p)
             /\ Opt(log[i].post.repo.worktree, p) = BotFile(log[i].args.bot, p)

\* Two successive successful generate_draft calls on the same folio.
C10_Case(i) ==
    /\ i \in GenerateCalls /\ i + 1 \in GenerateCalls
    /\ log[i].err = Ok /\ log[i + 1].err = Ok
    /\ log[i].folio_id = log[i + 1].folio_id

\* C10: two successive successful generate_draft calls on the same folio
\* return strictly increasing sequence numbers, add two prompt rows, and
\* create two distinct refs refs/drafts/<folio id>/<seqno>, each pointing at
\* its own draft commit.
C10_Reentrancy ==
    \A i \in Calls : C10_Case(i) =>
        LET e1 == log[i]
            e2 == log[i + 1]
            r == e2.post.repo
        IN  /\ e1.seqno < e2.seqno
            /\ Len(e2.post.store.prompts) = Len(e1.pre.store.prompts) + 2
            /\ draft_ref(e1.folio_id, e1.seqno) # draft_ref(e2.folio_id, e2.seqno)
            /\ draft_ref(e1.folio_id, e1.seqno) \in DOMAIN r.refs
            /\ draft_ref(e2.folio_id, e2.seqno) \in DOMAIN r.refs
            /\ r.refs[draft_ref(e1.folio_id, e1.seqno)] = e1.commit
            /\ r.refs[draft_ref(e2.folio_id, e2.seqno)] = e2.commit
            /\ e1.commit # e2.commit
            /\ r.commits[e1.commit].message.title = "draft!"
            /\ r.commits[e2.commit].message.title = "draft!"

C10_Witness == \E i \in Calls : C10_Case(i)

\* The precondition of C11: two successive successful generate_draft calls
\* with accept MANUAL and toolbox-only bots, the first on a non-draft branch,
\* the second on the first's draft branch with nothing done in between.
C11_Case(i) ==
    /\ i \in GenerateCalls /\ i + 1 \in GenerateCalls
    /\ log[i].err = Ok /\ log[i + 1].err = Ok
    /\ log[i].args.accept = MANUAL /\ log[i + 1].args.accept = MANUAL
    /\ log[i].args.bot.direct = <<>> /\ log[i + 1].args.bot.direct = <<>>
    /\ OnOriginBranch(log[i].pre.repo)
    /\ log[i + 1].pre = log[i].post
    /\ Branch_active(log[i + 1].pre.repo) = <<log[i].folio_id>>

\* C11: in that case each call adds exactly one commit to the draft branch
\* (origin head, first draft, second draft, no sync commit in between), and
\* a path both bots wrote holds the second bot's content in the second draft.
C11_ReuseBranch ==
    \A i \in Calls : C11_Case(i) =>
        LET e1 == log[i]
            e2 == log[i + 1]
            r == e2.post.repo
        IN  /\ r.commits[e2.commit].parent = e1.commit
            /\ r.commits[e1.commit].parent = head_commit(e1.pre.repo)
            /\ Len(r.commits) = Len(e1.pre.repo.commits) + 2
            /\ \A p \in Touched(e1.args.bot) \cap Touched(e2.args.bot) :
                   Opt(r.commits[e2.commit].tree, p) = BotFile(e2.args.bot, p)

\* The second half of C11 alone: a path both bots touched holds what the
\* second bot left there in the second draft.
C11_SecondBotWins ==
    \A i \in Calls : C11_Case(i) =>
        \A p \in Touched(log[i].args.bot) \cap Touched(log[i + 1].args.bot) :
            Opt(log[i + 1].post.repo.commits[log[i + 1].commit].tree, p)
                = BotFile(log[i + 1].args.bot, p)

\* The precondition of C12: the index differs from HEAD's tree and reset is
\* not requested.
C12_Case(i) ==
    /\ i \in GenerateCalls
    /\ log[i].pre.repo.index # HeadTree(log[i].pre.repo)
    /\ ~log[i].args.reset

\* C12: generate_draft with staged changes and no reset fails with the
\* pending-changes error and changes nothing: no folio row, no branch, and
\* HEAD, the index and the working tree as before.
C12_PendingChanges ==
    \A i \in Calls : C12_Case(i) =>
        /\ log[i].err = PendingChangesError
        /\ log[i].post.store = log[i].pre.store
        /\ log[i].post.repo = log[i].pre.repo

\* Such a call on a branch, with a prompt and a bot that would have run.
C12_Witness ==
    \E i \in Calls :
        /\ C12_Case(i)
        /\ log[i].err = PendingChangesError
        /\ active_branch(log[i].pre.repo) # NoBranch
        /\ strip(log[i].args.prompt) # <<>>
        /\ log[i].args.bot.ops # <<>>

\* The paths whose index entry differs from HEAD's: the staged changes.
StagedPaths(r) == ChangedPaths(HeadTree(r), r.index)

\* The precondition of C13: something is staged (and nothing is unmerged)
\* and reset is requested, on a checked-out branch, with a non-empty prompt
\* and a toolbox-only bot that returns.
C13_Case(i) ==
    /\ i \in GenerateCalls
    /\ ~log[i].args.bot.raises
    /\ StagedPaths(log[i].pre.repo) # {}
    /\ log[i].pre.repo.unmerged = {}
    /\ log[i].args.reset
    /\ active_branch(log[i].pre.repo) # NoBranch
    /\ strip(log[i].args.prompt) # <<>>
    /\ log[i].args.bot.direct = <<>>

\* What C13 promises of such a call: it succeeds, every staged file is in
\* the sync commit that is the draft commit's parent and, where the bot's
\* changes were not applied to it, still in the working tree, and the draft
\* commit changes only paths the bot touched.
C13_Kept(i) ==
    LET e == log[i]
        r == e.post.repo
    IN  /\ e.err = Ok
        /\ r.commits[r.commits[e.commit].parent].message = SyncMessage
        /\ \A p \in StagedPaths(e.pre.repo) :
              /\ Opt(r.commits[r.commits[e.commit].parent].tree, p)
                     = Opt(e.pre.repo.index, p)
              /\ (e.args.accept = MANUAL \/ p \notin Touched(e.args.bot))
                     => Opt(r.worktree, p) = Opt(e.pre.repo.index, p)
        /\ DraftDiff(i) \subseteq Touched(e.args.bot)

\* C13: generate_draft with staged changes and reset requested succeeds and
\* loses nothing of what was staged.
C13_ResetLosesNothing == \A i \in Calls : C13_Case(i) => C13_Kept(i)

\* C13 when the working tree holds what was staged and the draft's patch,
\* if one is applied, is applied successfully: there it holds.
C13_StagedInWorktree ==
    \A i \in Calls :
        /\ C13_Case(i)
        /\ log[i].args.accept = MANUAL \/ log[i].err = Ok
        /\ \A p \in StagedPaths(log[i].pre.repo) :
               Opt(log[i].pre.repo.worktree, p) = Opt(log[i].pre.repo.index, p)
        => C13_Kept(i)

\* The prompt text is empty or whitespace only.
Blank(prompt) == \A k \in DOMAIN prompt : prompt[k] \in Whitespace

\* The draft commits of a repository.
DraftCommits(r) == {c \in DOMAIN r.commits : r.commits[c].message.title = "draft!"}

\* The call gets as far as the prompt: nothing is staged or reset is
\* requested, and a branch is checked out.
C14_ReachesPrompt(i) ==
    /\ \/ log[i].args.reset
       \/ /\ log[i].pre.repo.index = HeadTree(log[i].pre.repo)
          /\ log[i].pre.repo.unmerged = {}
    /\ active_branch(log[i].pre.repo) # NoBranch

C15_DetachedHead ==
    \A i \in GenerateCalls : active_branch(log[i].pre.repo) = NoBranch =>
        /\ log[i].err \in {NoActiveBranchError, PendingChangesError}
        /\ log[i].err = PendingChangesError =>
               has_staged_changes(log[i].pre.repo) /\ ~log[i].args.reset
        /\ log[i].post.store = log[i].pre.store
        /\ log[i].post.repo.branches = log[i].pre.repo.branches
        /\ log[i].post.repo.head = log[i].pre.repo.head
        /\ log[i].post.repo.commits = log[i].pre.repo.commits

\* A generate_draft with a prompt and a bot on a detached HEAD over a dirty
\* working tree, failing with the no-active-branch error.
C15_Witness ==
    \E i \in GenerateCalls :
        /\ active_branch(log[i].pre.repo) = NoBranch
        /\ log[i].pre.repo.worktree # HeadTree(log[i].pre.repo)
        /\ ~Blank(log[i].args.prompt)
        /\ log[i].args.bot.ops # <<>>
        /\ log[i].err = NoActiveBranchError

\* C16: in every state, each successful generate_draft made so far has its
\* ref refs/drafts/<folio id>/<seqno>, pointing at its draft commit, which is
\* the commit it was when the call returned.
C16_RefsStay ==
    \A i \in GenerateCalls : log[i].err = Ok =>
        /\ draft_ref(log[i].folio_id, log[i].seqno) \in DOMAIN repo.refs
        /\ repo.refs[draft_ref(log[i].folio_id, log[i].seqno)] = log[i].commit
        /\ log[i].commit \in DraftCommits(repo)
        /\ repo.commits[log[i].commit] = log[i].post.repo.commits[log[i].commit]

\* A draft whose branch was deleted by a later finalize_folio, and a later
\* draft of another folio, both with their refs.
C16_Witness ==
    \/ \E i \in GenerateCalls : \E j \in FinalizeCalls :
          /\ i < j /\ log[i].err = Ok /\ log[j].err = Ok
          /\ log[i].args.accept # FINALIZE
          /\ Branch_name(log[i].folio_id) \notin DOMAIN repo.branches
          /\ repo.refs[draft_ref(log[i].folio_id, log[i].seqno)] = log[i].commit
    \/ \E i, j \in GenerateCalls :
          /\ i < j /\ log[i].err = Ok /\ log[j].err = Ok
          /\ log[i].args.accept = FINALIZE
          /\ log[i].folio_id # log[j].folio_id
          /\ Branch_name(log[i].folio_id) \notin DOMAIN repo.branches
          /\ repo.refs[draft_ref(log[i].folio_id, log[i].seqno)] = log[i].commit

\* C17: finalize_folio leaves the working tree's files and their contents as
\* they were immediately before the call, and so does the finalize that ends
\* a generate_draft with accept FINALIZE: a path its toolbox-only bot did not
\* touch is as before the call, a path it touched holds the bot's file.
C17_FinalizeKeepsWorktree ==
    /\ \A i \in FinalizeCalls : log[i].post.repo.worktree = log[i].pre.repo.worktree
    /\ \A i \in GenerateCalls :
          /\ log[i].args.accept = FINALIZE
          /\ log[i].args.bot.direct = <<>>
          /\ log[i].err = Ok
          => \A p \in Paths :
                Opt(log[i].post.repo.worktree, p) =
                    IF p \in Touched(log[i].args.bot)
                    THEN BotFile(log[i].args.bot, p)
                    ELSE Opt(log[i].pre.repo.worktree, p)

\* A successful finalize_folio back to the origin branch, with a file the
\* draft materialized and a user's edit made on the draft branch on disk,
\* neither of them in the origin commit.
C17_Witness ==
    \E i \in FinalizeCalls : \E p, q \in Paths :
        LET r == log[i].post.repo
        IN  /\ log[i].err = Ok
            /\ active_branch(r) = Main
            /\ p # q
            /\ Opt(r.worktree, p) \in {<<c>> : c \in BotContents}
            /\ Opt(r.worktree, q) \in {<<c>> : c \in UserContents}
            /\ Opt(r.worktree, p) # Opt(HeadTree(r), p)
            /\ Opt(r.worktree, q) # Opt(HeadTree(r), q)

\* A successful generate_draft with accept CHECKOUT and a toolbox-only bot.
C18_Case(i) ==
    /\ i \in GenerateCalls
    /\ log[i].args.accept = CHECKOUT
    /\ log[i].args.bot.direct = <<>>
    /\ log[i].err = Ok

\* C18: after such a call every path the bot wrote holds the bot's content in
\* the working tree, every path it deleted is absent, every other file is as
\* before the call, and the draft branch is still there and checked out.
C18_CheckoutApplies ==
    \A i \in Calls : C18_Case(i) =>
        /\ \A p \in Paths :
              Opt(log[i].post.repo.worktree, p) =
                  IF p \in Touched(log[i].args.bot)
                  THEN BotFile(log[i].args.bot, p)
                  ELSE Opt(log[i].pre.repo.worktree, p)
        /\ active_branch(log[i].post.repo) = Branch_name(log[i].folio_id)
        /\ Branch_name(log[i].folio_id) \in DOMAIN log[i].post.repo.branches
        /\ log[i].post.repo.branches[Branch_name(log[i].folio_id)] = log[i].commit

\* Such a call over a dirty working tree whose bot overwrote one file that
\* was there and deleted the other.
C18_Witness ==
    \E i \in Calls : \E p, q \in Paths :
        /\ C18_Case(i)
        /\ log[i].pre.repo.worktree # HeadTree(log[i].pre.repo)
        /\ p \in DOMAIN log[i].pre.repo.worktree
        /\ q \in DOMAIN log[i].pre.repo.worktree
        /\ p \in Touched(log[i].args.bot)
        /\ BotFile(log[i].args.bot, p) # <<>>
        /\ BotFile(log[i].args.bot, p) # Opt(log[i].pre.repo.worktree, p)
        /\ Opt(log[i].post.repo.worktree, p) = BotFile(log[i].args.bot, p)
        /\ q \in Touched(log[i].args.bot)
        /\ BotFile(log[i].args.bot, q) = <<>>
        /\ q \notin DOMAIN log[i].post.repo.worktree

\* A read_file of a path directly after a write_file of the same path.
C19_Case(i) ==
    /\ i \in DOMAIN log
    /\ i > 1
    /\ log[i].op = "read_file"
    /\ log[i - 1].op = "write_file"
    /\ log[i - 1].args.path = log[i].args.path

\* C19: write_file(p, s) followed by read_file(p) on the same toolbox
\* returns exactly s, whether p existed, was new or had been deleted through
\* the toolbox before.
C19_WriteReadRoundTrip ==
    \A i \in DOMAIN log :
        C19_Case(i) => log[i].result = <<log[i - 1].args.contents>>

\* C19 for contents that do not end with whitespace, where it holds.
C19_NoTrailingWhitespace ==
    \A i \in DOMAIN log :
        /\ C19_Case(i)
        /\ rstrip(log[i - 1].args.contents) = log[i - 1].args.contents
        => log[i].result = <<log[i - 1].args.contents>>

\* The round trip of C19 happens for a path deleted through the toolbox
\* before it is written.
C19_AfterDelete ==
    \E i \in DOMAIN log :
        /\ C19_Case(i)
        /\ i > 2
        /\ log[i - 2].op = "delete_file"
        /\ log[i - 2].args.path = log[i].args.path
        /\ log[i - 2].pre.repo.index # log[i - 2].post.repo.index
        /\ log[i].result = <<log[i - 1].args.contents>>

\* The precondition of C20: on a checked-out branch with a non-empty prompt
\* and the staged changes, if any, reset, the bot's only call is delete_file
\* of a path that no file of the working tree has, hence no entry of the
\* index the bot's toolbox works on.
C20_Case(i) ==
    /\ i \in GenerateCalls
    /\ active_branch(log[i].pre.repo) # NoBranch
    /\ strip(log[i].args.prompt) # <<>>
    /\ has_staged_changes(log[i].pre.repo) => log[i].args.reset
    /\ log[i].args.bot.direct = <<>>
    /\ Len(log[i].args.bot.ops) = 1
    /\ log[i].args.bot.ops[1].tool = "delete_file"
    /\ log[i].args.bot.ops[1].path \notin DOMAIN log[i].pre.repo.worktree

\* What C20 promises of such a call: it succeeds with a draft commit of its
\* own whose tree is its parent's, and the delete_file call is recorded.
C20_Ends(i) ==
    LET e == log[i]
        r == e.post.repo
        s1 == e.post.store
    IN  /\ e.err = Ok
        /\ e.commit \notin DOMAIN e.pre.repo.commits
        /\ r.commits[e.commit].message = DraftMessage(e.args.prompt)
        /\ r.commits[e.commit].tree = r.commits[r.commits[e.commit].parent].tree
        /\ s1.operations[Len(s1.operations)] =
               [commit_sha |-> e.commit, tool |-> "delete_file",
                path |-> e.args.bot.ops[1].path]

\* C20: delete_file of a path the toolbox does not hold raises nothing and
\* leaves the files and their contents as they are, and a generate_draft
\* whose bot only deletes such a path completes successfully.
C20_DeleteUnknownFile ==
    /\ \A p \in Paths \ DOMAIN repo.index : Toolbox_delete_file(repo, p) = repo
    /\ \A i \in Calls : C20_Case(i) => C20_Ends(i)

\* Such a call happened with accept FINALIZE, and the path it deletes is in
\* no index afterwards, the working tree as before.
C20_Witness ==
    \E i \in Calls :
        /\ C20_Case(i)
        /\ log[i].args.accept = FINALIZE
        /\ log[i].err = Ok
        /\ log[i].args.bot.ops[1].path \notin DOMAIN log[i].post.repo.index
        /\ log[i].post.repo.worktree = log[i].pre.repo.worktree

\* C21: write_file through the toolbox never creates or changes the file of
\* the working tree at that path: after write_file(p, s) the working tree
\* has for p the content, or the absence, it had before the call.
C21_WriteKeepsWorktree ==
    \A i \in DOMAIN log :
        log[i].op = "write_file"
        => Opt(log[i].post.repo.worktree, log[i].args.path)
               = Opt(log[i].pre.repo.worktree, log[i].args.path)

\* write_file changed the index entry of a path whose working-tree file the
\* user had written, and of a path the working tree does not have.
C21_Witness ==
    \E i, j \in DOMAIN log :
        /\ log[i].op = "write_file"
        /\ log[j].op = "write_file"
        /\ log[i].post.repo.index # log[i].pre.repo.index
        /\ Opt(log[i].pre.repo.worktree, log[i].args.path) \notin
               {<<>>, <<log[i].args.contents>>, Opt(InitTree, log[i].args.path)}
        /\ log[j].args.path \notin DOMAIN log[j].post.repo.worktree
        /\ log[j].args.path \in DOMAIN log[j].post.repo.index

\* out is the text raw without its trailing whitespace: a prefix of raw that
\* does not end with whitespace, the rest of raw being whitespace only.
Stripped(raw, out) ==
    /\ Len(out) <= Len(raw)
    /\ out = SubSeq(raw, 1, Len(out))
    /\ out = <<>> \/ out[Len(out)] \notin Whitespace
    /\ \A k \in Len(out) + 1 .. Len(raw) : raw[k] \in Whitespace

\* A call that does not raise returns the code and the stripped output.
C24_Returns(i) ==
    log[i].result.err = Ok =>
        /\ log[i].result.code = log[i].args.code
        /\ Stripped(log[i].args.stdout, log[i].result.stdout)
        /\ Stripped(log[i].args.stderr, log[i].result.stderr)

\* C24: for every accepted set of exit codes S and every observed exit code
\* c, the call raises the command error if and only if c is not in S, and
\* otherwise returns c with stdout and stderr stripped of trailing
\* whitespace.
C24_RaisesIffUnexpected ==
    \A i \in DOMAIN log :
        /\ log[i].result.err = GitError
               <=> log[i].args.code \notin log[i].args.expect_codes
        /\ C24_Returns(i)

\* C24 amended: the call raises if and only if S is not empty and c is not
\* in S (an empty S accepts every code), and otherwise returns c with stdout
\* and stderr stripped of trailing whitespace.
C24_RaisesIffNonEmptyUnexpected ==
    \A i \in DOMAIN log :
        /\ log[i].result.err = GitError
               <=> /\ log[i].args.expect_codes # {}
                   /\ log[i].args.code \notin log[i].args.expect_codes
        /\ C24_Returns(i)

\* A call that accepts every code returned a non-zero code with output that
\* lost trailing whitespace, and a call with accepted codes raised.
C24_Witness ==
    \E i, j \in DOMAIN log :
        /\ log[i].args.expect_codes = {}
        /\ log[i].args.code # 0
        /\ log[i].result.err = Ok
        /\ log[i].result.stdout # log[i].args.stdout
        /\ log[i].result.stdout # <<>>
        /\ log[j].args.expect_codes # {}
        /\ log[j].result.err = GitError

\* The text is the reserved prefix followed by decimal digits and nothing
\* else.
IsDraftName(text) ==
    \E k \in 1 .. Len(text) :
        /\ SubSeq(text, 1, k) = PrefixText
        /\ k < Len(text)
        /\ \A j \in k + 1 .. Len(text) : text[j] \in DigitChars

\* The parts of C26 about parsing, for the name that call i is to look at:
\* the name built from a folio id gives that id, only a draft name gives an
\* id, and without a passed name any other active branch gives none.
C26_Parse(i, examined) ==
    /\ log[i].args.folio_id # <<>>
           => log[i].result = [err |-> Ok, folio_id |-> log[i].args.folio_id]
    /\ log[i].result.folio_id # <<>> => IsDraftName(examined)
    /\ (~log[i].args.passed /\ ~IsDraftName(log[i].args.active))
           => log[i].result = [err |-> Ok, folio_id |-> <<>>]

\* C26: for every folio id n >= 0, parsing the branch name built from n
\* yields n; a name is recognised as a draft branch only when it is exactly
\* drafts/ followed by decimal digits; an explicitly passed name that is not
\* recognised raises ValueError, while an unrecognised or absent active
\* branch yields none.
C26_BranchRoundTrip ==
    \A i \in DOMAIN log :
        /\ C26_Parse(i, IF log[i].args.passed THEN log[i].args.name
                                              ELSE log[i].args.active)
        /\ (log[i].args.passed /\ ~IsDraftName(log[i].args.name))
               => log[i].result.err = ValueError

\* C26 amended: as C26, but only a non-empty passed name that is not
\* recognised raises ValueError; a passed empty name counts as no name, the
\* active branch is parsed in its place.
C26_BranchRoundTripNonEmpty ==
    \A i \in DOMAIN log :
        /\ C26_Parse(i, IF log[i].args.name # <<>> THEN log[i].args.name
                                                   ELSE log[i].args.active)
        /\ (/\ log[i].args.passed
            /\ log[i].args.name # <<>>
            /\ ~IsDraftName(log[i].args.name))
               => log[i].result.err = ValueError
        /\ (log[i].args.name = <<>> /\ ~IsDraftName(log[i].args.active))
               => log[i].result = [err |-> Ok, folio_id |-> <<>>]

\* A two-digit folio id came back from its name, and a passed name with
\* something after the digits raised ValueError.
C26_Witness ==
    \E i, j \in DOMAIN log :
        /\ log[i].args.folio_id = <<MaxFolioId>>
        /\ log[i].result.folio_id = <<MaxFolioId>>
        /\ log[j].args.passed
        /\ Branch_pattern_match(log[j].args.name) # <<>>
        /\ log[j].result.err = ValueError

\* The draft anchors of the repository: the refs refs/drafts/<folio>/<seqno>.
DraftRefs(r) == {ref \in DOMAIN r.refs : ref[1] = "refs/drafts/"}

\* The prompt rows with that folio id and sequence number.
PromptRows(s, folio_id, seqno) ==
    {k \in DOMAIN s.prompts :
        s.prompts[k].folio_id = folio_id /\ s.prompts[k].seqno = seqno}

\* Every draft anchor points to a draft commit and has exactly one prompt
\* row, and no two prompt rows share folio id and sequence number.
C27_AnchorsHaveRows ==
    /\ \A ref \in DraftRefs(repo) :
          /\ repo.refs[ref] \in DOMAIN repo.commits
          /\ repo.commits[repo.refs[ref]].message.title = "draft!"
          /\ Cardinality(PromptRows(store, ref[2], ref[3])) = 1
    /\ \A k \in DOMAIN store.prompts :
          PromptRows(store, store.prompts[k].folio_id, store.prompts[k].seqno)
              = {k}

\* C27: prompt rows are append-only and one to one with drafts: in every
\* state reached by generate_draft calls each prompt row (folio id, seqno)
\* has exactly one draft commit anchored at refs/drafts/<folio id>/<seqno>,
\* and each such anchor has exactly one prompt row.
C27_PromptsOneToOne ==
    /\ C27_AnchorsHaveRows
    /\ \A k \in DOMAIN store.prompts :
          draft_ref(store.prompts[k].folio_id, store.prompts[k].seqno)
              \in DraftRefs(repo)
    /\ \A i \in Calls :
          /\ Len(log[i].post.store.prompts) >= Len(log[i].pre.store.prompts)
          /\ SubSeq(log[i].post.store.prompts, 1,
                    Len(log[i].pre.store.prompts)) = log[i].pre.store.prompts

\* C27 for the prompt rows of calls whose bot returned, where it holds.
C27_ReturnedOneToOne ==
    /\ C27_AnchorsHaveRows
    /\ \A i \in GenerateCalls :
          log[i].commit # 0 =>
              /\ draft_ref(log[i].folio_id, log[i].seqno) \in DraftRefs(repo)
              /\ repo.refs[draft_ref(log[i].folio_id, log[i].seqno)]
                     = log[i].commit
              /\ PromptRows(store, log[i].folio_id, log[i].seqno) # {}

\* The operation rows keyed by a commit, in the order they were persisted.
OperationsOf(s, commit) ==
    SelectSeq(s.operations, LAMBDA o : o.commit_sha = commit)

\* The toolbox calls of a bot in call order, as rows keyed by a commit.
BotCalls(bot, commit) ==
    [k \in DOMAIN bot.ops |->
        [commit_sha |-> commit, tool |-> bot.ops[k].tool,
         path |-> bot.ops[k].path]]

\* C28: for each successful generate_draft call, the operation rows
\* persisted for its draft commit are exactly the toolbox calls the bot made
\* during that call, one row per call, in call order; calls made in another
\* generate_draft call are never among them.
C28_OperationsAreBotCalls ==
    \A i \in GenerateCalls :
        log[i].err = Ok =>
            /\ OperationsOf(store, log[i].commit)
                   = BotCalls(log[i].args.bot, log[i].commit)
            /\ OperationsOf(log[i].post.store, log[i].commit)
                   = BotCalls(log[i].args.bot, log[i].commit)

\* Two successful calls on one folio whose bots made different toolbox
\* calls, the second two of them, each call's rows under its own commit.
C28_Witness ==
    \E i, j \in GenerateCalls :
        /\ i < j
        /\ log[i].err = Ok
        /\ log[j].err = Ok
        /\ log[i].folio_id = log[j].folio_id
        /\ log[i].args.bot.ops # <<>>
        /\ Len(log[j].args.bot.ops) = 2
        /\ log[j].args.bot.ops[1].tool # log[j].args.bot.ops[2].tool
        /\ log[i].args.bot.ops[1] # log[j].args.bot.ops[1]
        /\ Len(store.operations) = Len(log[i].args.bot.ops) + 2
        /\ OperationsOf(store, log[j].commit)
               = BotCalls(log[j].args.bot, log[j].commit)

\* The most recent of a non-empty set of calls.
Latest(calls) == CHOOSE i \in calls : \A j \in calls : j <= i

\* latest_draft_prompt returns none off a draft branch, and on the draft
\* branch of a folio the prompt of the most recent of the given calls.
C29_Returns(calls) ==
    IF Branch_active(repo) = <<>>
    THEN latest_draft_prompt(repo, store) = <<>>
    ELSE calls # {} =>
             latest_draft_prompt(repo, store) = <<log[Latest(calls)].args.prompt>>

\* C29: latest_draft_prompt returns the prompt text of the most recent
\* generate_draft call on the folio whose draft branch is active, after any
\* number of calls on that folio, and none when the active branch is not a
\* draft branch.
C29_LatestPrompt ==
    C29_Returns({i \in GenerateCalls :
                    <<log[i].folio_id>> = Branch_active(repo)})

\* C29 amended: the most recent generate_draft call on the folio that
\* recorded its prompt, which a call with a blank prompt does not; none when
\* no call on the folio did.
C29_LatestRecordedPrompt ==
    /\ C29_Returns({i \in GenerateCalls :
                       /\ <<log[i].folio_id>> = Branch_active(repo)
                       /\ strip(log[i].args.prompt) # <<>>})
    /\ (\A i \in GenerateCalls : <<log[i].folio_id>> = Branch_active(repo)
                                      => strip(log[i].args.prompt) = <<>>)
           => latest_draft_prompt(repo, store) = <<>>

\* Two calls on the active folio recorded different prompts and the second
\* is the one returned.
C29_Witness ==
    \E i, j \in GenerateCalls :
        /\ i < j
        /\ <<log[i].folio_id>> = Branch_active(repo)
        /\ <<log[j].folio_id>> = Branch_active(repo)
        /\ log[i].seqno = 1
        /\ log[j].seqno = 2
        /\ log[i].args.prompt # log[j].args.prompt
        /\ latest_draft_prompt(repo, store) = <<log[j].args.prompt>>

\* C25: the repository identifier is generated at most once per repository:
\* the first Repo.enclosing call writes a new UUID to the repository's
\* configuration, and every later call on the same repository returns that
\* same UUID without rewriting it.
C25_UuidGeneratedOnce ==
    \A i \in DOMAIN log :
        /\ log[i].working_dir = WorkingDir
        /\ i = 1 =>
              /\ log[i].pre.repo.config = <<>>
              /\ log[i].post.repo.config = <<str_uuid(log[i].uuid)>>
              /\ log[i].uuid = log[i].args.fresh
        /\ i > 1 =>
              /\ log[i].uuid = log[1].uuid
              /\ log[i].post.repo = log[i].pre.repo
              /\ repo.config = log[1].post.repo.config

\* A later call from another directory, with another UUID at hand, returned
\* the first call's UUID.
C25_Witness ==
    \E i \in DOMAIN log :
        /\ i > 1
        /\ log[i].args.path # log[1].args.path
        /\ log[i].args.fresh # log[1].args.fresh
        /\ log[i].uuid = log[1].uuid

\* ---------------------------------------------------------------------- C22
\* The files a surface bound to the first commit is to show after the first
\* n calls: that commit's tree as changed by the surface's own writes and
\* deletes and by the editing sessions it has closed.
RECURSIVE C22_View(_)
C22_View(n) ==
    IF n = 0 THEN repo.commits[1].tree
    ELSE LET e == log[n]
             v == C22_View(n - 1)
         IN  CASE e.op = "write_file" -> Put(v, e.args.path, e.args.contents)
               [] e.op = "delete_file" -> Del(v, e.args.path)
               [] e.op = "edit_files_exit" -> e.post.surface.overlay
               [] OTHER -> v

\* C22: a surface bound to a commit lists and reads exactly the files of
\* that commit as modified by its own writes and deletes, whatever the user
\* has written to the working tree or committed since, and reading a path
\* that view does not have returns no content.
C22_ReadsBoundView ==
    \A i \in 1..Len(log) :
        /\ log[i].op = "read_file" =>
              log[i].result = Opt(C22_View(i - 1), log[i].args.path)
        /\ log[i].op = "list_files" =>
              log[i].result = DOMAIN C22_View(i - 1)

\* What holds instead: the view is the bound one, and a file is read without
\* the whitespace it ends with.
C22_ReadsBoundViewStripped ==
    \A i \in 1..Len(log) :
        /\ log[i].op = "read_file" =>
              IF log[i].args.path \in DOMAIN C22_View(i - 1)
              THEN /\ Len(log[i].result) = 1
                   /\ Stripped(C22_View(i - 1)[log[i].args.path],
                               log[i].result[1])
              ELSE log[i].result = <<>>
        /\ log[i].op = "list_files" =>
              log[i].result = DOMAIN C22_View(i - 1)

\* A read through the surface after the user has changed the same file in
\* the working tree and committed it.
C22_AfterUserCommit ==
    \E i \in 1..Len(log) :
        /\ log[i].op = "read_file"
        /\ log[i].args.path \in DOMAIN InitTree
        /\ log[i].result = <<InitTree[log[i].args.path]>>
        /\ Opt(HeadTree(log[i].pre.repo), log[i].args.path) # log[i].result
        /\ Opt(log[i].pre.repo.worktree, log[i].args.path) # log[i].result

\* ---------------------------------------------------------------------- C23
\* Call i is made while an editing session is open.
C23_InSession(i) == log[i].pre.surface.session # <<>>

\* C23: the directory an editing session yields holds exactly the overlay's
\* files at that moment; a read_file made while the session is open returns
\* what the overlay had when the session opened, whatever has been done in
\* the directory; and when the session closes, every path whose file was
\* added, changed or removed in the directory is in the overlay as it is in
\* the directory.
C23_EditingSession ==
    \A i \in 1..Len(log) :
        /\ log[i].op = "edit_files" =>
              /\ log[i].result = log[i].pre.surface.overlay
              /\ log[i].post.surface.session[1].dir = log[i].pre.surface.overlay
        /\ log[i].op = "read_file" /\ C23_InSession(i) =>
              LET entry == log[i].pre.surface.session[1].entry
                  path == log[i].args.path
              IN  IF path \in DOMAIN entry
                  THEN /\ Len(log[i].result) = 1
                       /\ Stripped(entry[path], log[i].result[1])
                  ELSE log[i].result = <<>>
        /\ log[i].op = "edit_files_exit" =>
              LET entry == log[i].pre.surface.session[1].entry
                  dir == log[i].pre.surface.session[1].dir
              IN  /\ log[i].post.surface.session = <<>>
                  /\ \A p \in Paths :
                        Opt(dir, p) # Opt(entry, p) =>
                            Opt(log[i].post.surface.overlay, p) = Opt(dir, p)

\* A session in which a file was removed from the directory, read_file still
\* returned it, and the overlay has lost it once the session has closed.
C23_Witness ==
    \E i, j \in 1..Len(log) :
        /\ i < j
        /\ log[i].op = "read_file" /\ C23_InSession(i)
        /\ log[i].result # <<>>
        /\ log[i].args.path \notin DOMAIN log[i].pre.surface.session[1].dir
        /\ log[j].op = "edit_files_exit"
        /\ log[i].args.path \notin DOMAIN log[j].post.surface.overlay
        /\ log[i].args.path \in DOMAIN log[j].pre.surface.overlay

\* A session that closes with one file added to and another changed in the
\* directory.
C23_AddedAndChanged ==
    \E j \in 1..Len(log) :
        /\ log[j].op = "edit_files_exit"
        /\ \E p, q \in Paths :
              /\ p \notin DOMAIN log[j].pre.surface.overlay
              /\ p \in DOMAIN log[j].post.surface.overlay
              /\ q \in DOMAIN log[j].pre.surface.overlay
              /\ Opt(log[j].post.surface.overlay, q) #
                     Opt(log[j].pre.surface.overlay, q)

\* ---------------------------------------------------------------------- C30
\* Call i is a generate_draft that starts a draft off an origin branch and
\* returns, and call i + 1 is a discard_draft.
C30_Case(i) ==
    /\ i + 1 \in 1..Len(log)
    /\ log[i].op = "generate_draft"
    /\ log[i].err = Ok
    /\ ManagerBranch_fullmatch(active_branch(log[i].pre.repo)) = <<>>
    /\ log[i + 1].op = "discard_draft"

\* C30: generate_draft followed by discard_draft leaves the repository on
\* the origin branch, at the commit that branch had before the draft, with
\* the working tree as it was when generate_draft was called, whatever was
\* edited in between.
C30_DiscardRestores ==
    \A i \in 1..Len(log) :
        C30_Case(i) =>
            /\ log[i + 1].err = Ok
            /\ active_branch(log[i + 1].post.repo) =
                   active_branch(log[i].pre.repo)
            /\ head_commit(log[i + 1].post.repo) = head_commit(log[i].pre.repo)
            /\ log[i + 1].post.repo.worktree = log[i].pre.repo.worktree

\* What happens instead: discard_draft raises and leaves the repository on
\* the draft branch as it found it, unless HEAD was detached in between.
C30_DiscardRaises ==
    \A i \in 1..Len(log) :
        C30_Case(i) =>
            /\ log[i + 1].err \in {GitCommandError, DetachedHeadError}
            /\ log[i + 1].post.repo = log[i + 1].pre.repo
            /\ log[i + 1].err = GitCommandError =>
                  /\ ManagerBranch_fullmatch(
                         active_branch(log[i + 1].post.repo)) # <<>>
                  /\ head_commit(log[i + 1].post.repo) #
                         head_commit(log[i].pre.repo)

\* A draft started with an edited working tree, edited again on the draft
\* branch and then discarded.
C30_EditedSince ==
    \E i \in 1..Len(log) :
        /\ C30_Case(i)
        /\ log[i].pre.repo.worktree # InitTree
        /\ log[i + 1].pre.repo.worktree # log[i].post.repo.worktree
        /\ log[i + 1].err = GitCommandError

\* ---------------------------------------------------------------------- C31
\* Call i is a generate_draft with accept CHECKOUT that returned.
C31_Case(i) ==
    i \in GenerateCalls /\ log[i].args.accept = CHECKOUT /\ log[i].err = Ok

\* C31: after a generate_draft with accept CHECKOUT that returned, the index
\* equals HEAD's tree and nothing is unmerged, and a generate_draft without
\* reset that follows it directly is not rejected for pending changes.
C31_CheckoutLeavesNothingStaged ==
    \A i \in Calls :
        C31_Case(i) =>
            /\ log[i].post.repo.index = HeadTree(log[i].post.repo)
            /\ log[i].post.repo.unmerged = {}
            /\ \A j \in GenerateCalls :
                  /\ j = i + 1
                  /\ log[j].pre.repo = log[i].post.repo
                  /\ ~log[j].args.reset
                  => log[j].err # PendingChangesError

\* A draft that changed a file was applied to the working tree, and the next
\* generate_draft, called without reset on what it left, was not rejected.
C31_Witness ==
    \E i \in Calls :
        /\ C31_Case(i)
        /\ DraftDiff(i) # {}
        /\ log[i].post.repo.worktree # log[i].pre.repo.worktree
        /\ i + 1 \in GenerateCalls
        /\ log[i + 1].pre.repo = log[i].post.repo
        /\ ~log[i + 1].args.reset
        /\ log[i + 1].err = Ok

\* ---------------------------------------------------------------------- C32
\* The sync commits call i created on top of the commit parent.
C32_SyncsOn(i, parent) ==
    {c \in DOMAIN log[i].post.repo.commits :
        /\ c > Len(log[i].pre.repo.commits)
        /\ log[i].post.repo.commits[c].message = SyncMessage
        /\ log[i].post.repo.commits[c].parent = parent}

\* Call i gets as far as staging the working tree on entry: a finalize_folio
\* on a draft branch, or a generate_draft that is not rejected for pending
\* changes and has a branch checked out.
C32_StagesOnEntry(i) ==
    IF i \in FinalizeCalls THEN Branch_active(log[i].pre.repo) # <<>>
    ELSE /\ log[i].args.reset \/ ~has_staged_changes(log[i].pre.repo)
         /\ active_branch(log[i].pre.repo) # NoBranch

\* Call i is a generate_draft that got as far as finalizing its folio.
C32_StagesOnExit(i) ==
    i \in GenerateCalls /\ log[i].args.accept = FINALIZE /\ log[i].err = Ok

C33_Created(i, n) ==
    /\ i \in GenerateCalls
    /\ OnOriginBranch(log[i].pre.repo)
    /\ Len(log[i].pre.store.folios) = n - 1
    /\ Len(log[i].post.store.folios) = n

\* C33: whenever the active branch is the draft branch of a folio n, the
\* store has the folio row n, which holds the repository's identifier and
\* the branch and the commit HEAD was on when the call that created the folio
\* started; and no call changes a folio row that is there.
C33_FolioRowOfActiveBranch ==
    /\ Branch_active(repo) # <<>> =>
          LET n == Branch_active(repo)[1]
          IN  /\ n \in DOMAIN store.folios
              /\ store.folios[n].repo_uuid = str_uuid(RepoUuid)
              /\ \E i \in Calls :
                    /\ C33_Created(i, n)
                    /\ store.folios[n].origin_branch =
                          active_branch(log[i].pre.repo)
                    /\ store.folios[n].origin_sha = head_commit(log[i].pre.repo)
    /\ \A i \in Calls :
          /\ \A k \in DOMAIN log[i].pre.store.folios :
                /\ k \in DOMAIN log[i].post.store.folios
                /\ log[i].post.store.folios[k] = log[i].pre.store.folios[k]
          /\ \A k \in DOMAIN log[i].post.store.folios :
                k \in DOMAIN store.folios
                    /\ store.folios[k] = log[i].post.store.folios[k]

\* Drafter calls alone: the first creates a folio, the second reuses its
\* branch, which is still checked out, two draft commits past the origin
\* commit.
C33_Witness ==
    /\ edits = 0
    /\ Len(log) = 2
    /\ C33_Created(1, 1)
    /\ log[1].err = Ok
    /\ 2 \in GenerateCalls
    /\ log[2].err = Ok
    /\ Branch_active(repo) = <<1>>
    /\ repo.commits[repo.commits[head_commit(repo)].parent].parent =
           store.folios[1].origin_sha

\* A folio created off an edited working tree: a sync commit stands between
\* the origin commit and the draft commit.
C33_OriginBeforeSync ==
    \E i \in Calls :
        /\ C33_Created(i, 1)
        /\ log[i].err = Ok
        /\ Branch_active(repo) = <<1>>
        /\ store.folios[1].origin_sha # repo.commits[log[i].commit].parent

\* ---------------------------------------------------------------------- C34
\* What call i added: prompt rows, draft commits, anchor refs, action rows.
C34_NewPrompts(i) ==
    {k \in DOMAIN log[i].post.store.prompts : k > Len(log[i].pre.store.prompts)}

C34_NewDrafts(i) ==
    {c \in DraftCommits(log[i].post.repo) : c > Len(log[i].pre.repo.commits)}

C34_NewRefs(i) == DraftRefs(log[i].post.repo) \ DraftRefs(log[i].pre.repo)

C34_NewActions(i) ==
    {k \in DOMAIN log[i].post.store.actions : k > Len(log[i].pre.store.actions)}

\* C34: a generate_draft call persists the prompt row, runs the bot, creates
\* the draft commit, writes the anchor ref and persists the action and
\* operation rows in this order: a call that stops on the way has done a
\* beginning of these steps, the bot's writes are in the draft commit, the
\* ref points to that commit and the action row names it and the call's
\* prompt row.  Hence, in every state, each action row's commit is the target
\* of an anchor ref and its prompt row exists and was added by the call that
\* added the action row.
C34_StepOrder ==
    /\ \A i \in GenerateCalls :
          LET post == log[i].post
          IN  /\ Cardinality(C34_NewPrompts(i)) <= 1
              /\ C34_NewDrafts(i) # {} => C34_NewPrompts(i) # {}
              /\ C34_NewRefs(i) # {} => C34_NewDrafts(i) # {}
              /\ C34_NewActions(i) # {} => C34_NewRefs(i) # {}
              /\ \A k \in DOMAIN post.store.operations :
                    k > Len(log[i].pre.store.operations) => C34_NewActions(i) # {}
              /\ log[i].args.bot.raises /\ log[i].err = BotActError =>
                    C34_NewPrompts(i) # {} /\ C34_NewDrafts(i) = {}
              /\ \A c \in C34_NewDrafts(i) :
                    /\ \A p \in Touched(log[i].args.bot) :
                          Opt(post.repo.commits[c].tree, p) =
                              BotFile(log[i].args.bot, p)
                    /\ \A ref \in C34_NewRefs(i) : post.repo.refs[ref] = c
                    /\ \A k \in C34_NewActions(i) :
                          /\ post.store.actions[k].commit_sha = c
                          /\ post.store.actions[k].prompt_id \in C34_NewPrompts(i)
    /\ \A k \in DOMAIN store.actions :
          /\ \E ref \in DraftRefs(repo) : repo.refs[ref] = store.actions[k].commit_sha
          /\ store.actions[k].prompt_id \in DOMAIN store.prompts
          /\ \E i \in GenerateCalls :
                /\ k \in C34_NewActions(i)
                /\ store.actions[k].prompt_id \in C34_NewPrompts(i)

\* Two drafts of one folio, each with its action row, after a call whose bot
\* raised.
C34_Witness ==
    /\ Len(store.actions) = 2
    /\ store.prompts[store.actions[1].prompt_id].folio_id =
           store.prompts[store.actions[2].prompt_id].folio_id
    /\ store.actions[1].commit_sha # store.actions[2].commit_sha

\* A call whose bot raised: the prompt row is there, nothing else is.
C34_BotRaised ==
    \E i \in GenerateCalls :
        /\ log[i].err = BotActError
        /\ C34_NewPrompts(i) # {}
        /\ C34_NewDrafts(i) = {} /\ C34_NewRefs(i) = {} /\ C34_NewActions(i) = {}

\* ---------------------------------------------------------------------- C35
\* Call i is a generate_draft with accept FINALIZE that raised ConflictError.
C35_Case(i) ==
    /\ i \in GenerateCalls
    /\ log[i].args.accept = FINALIZE
    /\ log[i].err = ConflictError

\* C35: when generate_draft with accept FINALIZE raises ConflictError, the
\* folio is not finalized: the draft branch is still there and checked out at
\* the draft commit, the anchor ref and the prompt and action rows of the
\* draft are there, and the index holds what the failed apply staged: the
\* conflicted paths unmerged, the draft's other paths as in the draft
\* commit, the rest as the working tree has it.
C35_ConflictSkipsFinalize ==
    \A i \in Calls :
        C35_Case(i) =>
            LET post == log[i].post
                name == Branch_name(log[i].folio_id)
                ref == draft_ref(log[i].folio_id, log[i].seqno)
            IN  /\ active_branch(post.repo) = name
                /\ name \in DOMAIN post.repo.branches
                /\ post.repo.branches[name] = log[i].commit
                /\ log[i].commit \in DraftCommits(post.repo)
                /\ ref \in DOMAIN post.repo.refs
                /\ post.repo.refs[ref] = log[i].commit
                /\ PromptRows(post.store, log[i].folio_id, log[i].seqno) # {}
                /\ \E k \in DOMAIN post.store.actions :
                      post.store.actions[k].commit_sha = log[i].commit
                /\ post.repo.unmerged # {}
                /\ post.repo.unmerged \subseteq DraftDiff(i)
                /\ has_staged_changes(post.repo)
                /\ \A p \in Paths \ post.repo.unmerged :
                      Opt(post.repo.index, p) =
                          IF p \in DraftDiff(i)
                          THEN Opt(post.repo.commits[log[i].commit].tree, p)
                          ELSE Opt(post.repo.worktree, p)

\* Such a call whose draft changed two paths, one applied and one conflicted.
C35_Witness ==
    \E i \in Calls :
        /\ C35_Case(i)
        /\ DraftDiff(i) \ log[i].post.repo.unmerged # {}

\* ---------------------------------------------------------------------- C36
\* Call i is a generate_draft with accept FINALIZE whose draft commit changes
\* nothing.
C36_Case(i) ==
    /\ i \in GenerateCalls
    /\ log[i].args.accept = FINALIZE
    /\ log[i].commit # 0
    /\ DraftDiff(i) = {}

\* C36: a generate_draft with accept FINALIZE whose bot changed nothing
\* returns with HEAD on the folio's origin branch and the draft branch
\* deleted, as with a non-empty delta; the apply alone is skipped, the working
\* tree is as the call found it (but for what the bot wrote there itself).
C36_EmptyDeltaFinalizes ==
    \A i \in Calls :
        C36_Case(i) =>
            LET post == log[i].post
            IN  /\ log[i].err = Ok
                /\ active_branch(post.repo) =
                       post.store.folios[log[i].folio_id].origin_branch
                /\ Branch_name(log[i].folio_id) \notin DOMAIN post.repo.branches
                /\ log[i].commit \in DraftCommits(post.repo)
                /\ log[i].args.bot.direct = <<>> =>
                       post.repo.worktree = log[i].pre.repo.worktree

\* Such a call with a bot that makes no call, creating the folio.
C36_Witness ==
    \E i \in Calls :
        /\ C36_Case(i)
        /\ log[i].args.bot = NoopBot
        /\ log[i].err = Ok
        /\ OnOriginBranch(log[i].pre.repo)

\* Such a call on the draft branch of a folio made before.
C36_OnDraftBranch ==
    \E j \in Calls :
        /\ C36_Case(j)
        /\ log[j].args.bot = NoopBot
        /\ log[j].err = Ok
        /\ Branch_active(log[j].pre.repo) # <<>>

\* ---------------------------------------------------------------------- C37
\* Call i is a finalize_folio on a draft branch whose folio the store does
\* not have.
C37_Case(i) ==
    /\ i \in FinalizeCalls
    /\ Branch_active(log[i].pre.repo) # <<>>
    /\ Branch_active(log[i].pre.repo)[1] \notin DOMAIN log[i].pre.store.folios

C37_CleanTree ==
    \E i \in Calls :
        /\ C37_Case(i)
        /\ log[i].pre.repo.worktree = HeadTree(log[i].pre.repo)


\* The repository as the bot of call i finds it: after the reset, if one was
\* requested, and the branch step of generate_draft.
C38_BotRepo(i) ==
    LET r == log[i].pre.repo
    IN  generate_draft_branch(IF has_staged_changes(r) THEN GitReset(r) ELSE r,
                              log[i].pre.store).repo

\* The precondition of C38: a successful generate_draft call with accept
\* MANUAL and a toolbox-only bot, followed with nothing done in between by a
\* generate_draft call with accept MANUAL on the same draft branch whose bot
\* runs.
C38_Case(i) ==
    /\ i \in GenerateCalls /\ i + 1 \in GenerateCalls
    /\ log[i].err = Ok
    /\ log[i].args.accept = MANUAL /\ log[i + 1].args.accept = MANUAL
    /\ log[i].args.bot.direct = <<>>
    /\ log[i + 1].pre = log[i].post
    /\ Branch_active(log[i + 1].pre.repo) = <<log[i].folio_id>>
    /\ ~Blank(log[i + 1].args.prompt)

\* C38: when a draft branch is reused with accept MANUAL and no user edit
\* between the two calls, the second call's bot reads through the toolbox,
\* at every path the first call's bot wrote or deleted, what the first bot
\* left there: the first draft's changes are in the index when it runs.
C38_SecondBotReadsFirstDraft ==
    \A i \in Calls : C38_Case(i) =>
        \A p \in Touched(log[i].args.bot) :
            Toolbox_read_file(C38_BotRepo(i + 1), p)
                = LET f == BotFile(log[i].args.bot, p)
                  IN  IF f = <<>> THEN <<>> ELSE <<GitCall_stdout(f[1])>>

\* What the second bot reads instead: the working tree's files as the first
\* call left them.
C38_SecondBotReadsWorktree ==
    \A i \in Calls : C38_Case(i) =>
        C38_BotRepo(i + 1).index = log[i].post.repo.worktree

\* Such a pair of calls whose first bot changed a file.
C38_Reverted ==
    \E i \in Calls :
        /\ C38_Case(i)
        /\ \E p \in Touched(log[i].args.bot) :
               BotFile(log[i].args.bot, p) # Opt(log[i].pre.repo.worktree, p)


\* The precondition of C39: a generate_draft call started on a checked-out
\* branch that is no draft branch and failing with the empty-prompt error.
C39_Case(i) ==
    /\ i \in GenerateCalls
    /\ OnOriginBranch(log[i].pre.repo)
    /\ log[i].err = EmptyPromptError

\* A retry of call i: the next call is a generate_draft with a non-empty
\* prompt, made on the branch call i left checked out and not stopped by
\* staged changes.
C39_Retry(i) ==
    /\ i + 1 \in GenerateCalls
    /\ ~Blank(log[i + 1].args.prompt)
    /\ active_branch(log[i + 1].pre.repo) = active_branch(log[i].post.repo)
    /\ log[i + 1].err # PendingChangesError

\* C39: a generate_draft call started on a non-draft branch that fails with
\* the empty-prompt error has recorded one folio row and left the new draft
\* branch of that folio checked out, with no prompt row, draft commit or
\* anchor ref; a retry with a non-empty prompt reuses that folio and branch:
\* it adds no folio row and no branch, its prompt row is the first of that
\* folio, and unless it finalizes its draft commit is the head of that
\* branch.
C39_EmptyPromptLeavesFolio ==
    \A i \in Calls : C39_Case(i) =>
        LET e == log[i]
        IN  /\ Len(e.post.store.folios) = Len(e.pre.store.folios) + 1
            /\ e.folio_id = Len(e.post.store.folios)
            /\ Branch_name(e.folio_id) \notin DOMAIN e.pre.repo.branches
            /\ active_branch(e.post.repo) = Branch_name(e.folio_id)
            /\ e.post.store.prompts = e.pre.store.prompts
            /\ DraftCommits(e.post.repo) = DraftCommits(e.pre.repo)
            /\ e.post.repo.refs = e.pre.repo.refs
            /\ C39_Retry(i) =>
                   LET f == log[i + 1]
                   IN  /\ f.folio_id = e.folio_id
                       /\ f.post.store.folios = e.post.store.folios
                       /\ DOMAIN f.post.repo.branches
                              \subseteq DOMAIN e.post.repo.branches
                       /\ Len(f.post.store.prompts)
                              = Len(e.post.store.prompts) + 1
                       /\ f.post.store.prompts[Len(f.post.store.prompts)].folio_id
                              = e.folio_id
                       /\ f.err = Ok => f.seqno = 1
                       /\ f.err = Ok /\ f.args.accept # FINALIZE =>
                              /\ active_branch(f.post.repo)
                                     = Branch_name(e.folio_id)
                              /\ head_commit(f.post.repo) = f.commit

\* Such a failed call followed by a successful retry on the same folio.
C39_Witness ==
    \E i \in Calls :
        /\ C39_Case(i)
        /\ C39_Retry(i)
        /\ log[i + 1].err = Ok
        /\ log[i + 1].args.bot.ops # <<>>

=============================================================================
